---- MODULE Spec2Model ----
(***************************************************************************)
(* Chunked audio streaming pipeline of the mobile app (frontend/Jim):      *)
(*   - AudioStreamingService: the in-memory publish/subscribe transport    *)
(*     with its chunk simulator and retained chunk buffer;                 *)
(*   - useAudioPlayback: the playback queue and its drain loop;            *)
(*   - useAudioRecording: the capture chunker.                             *)
(*                                                                         *)
(* JavaScript runs one synchronous segment at a time: every action below   *)
(* is one synchronous segment of a handler, from its call (or from the     *)
(* completion of the operation it awaited) to its next await or return.    *)
(* React state read inside a function is the value of the render whose     *)
(* closure the function belongs to; state setters always reach the         *)
(* component's current state.                                              *)
(***************************************************************************)
EXTENDS Integers, Sequences, FiniteSets, TLC

(***************************************************************************)
(* Program constants                                                       *)
(***************************************************************************)
\* AUDIO_CONFIG.playback.bufferSize
bufferSize == 5
\* the simulator stops once chunkIndex >= 10
simChunkCount == 10
\* AUDIO_CONFIG.chunking.maxChunksInMemory
maxChunksInMemory == 20
\* useState(1.0): the volume of the first render, in tenths
initialVolume == 10

(***************************************************************************)
(* Bounds of the model                                                     *)
(***************************************************************************)
\* chunks delivered to the playback handler
MaxArrivals == 5
\* calls of startPlayback, stopPlayback, pausePlayback and resumePlayback,
\* plus device and file-system calls that throw
MaxCalls == 3
\* callbacks registered for one event
MaxListeners == 2
\* calls of startRecording, stopRecording, pauseRecording and
\* resumeRecording, plus device calls that throw
MaxRecCalls == 3
\* seconds that pass
MaxClock == 2
\* calls of sendAudioChunk
MaxSends == 24
\* messages the web page receives
MaxMsgs == 4
\* calls of simulateIncomingAudioChunks and stopSimulation
MaxSimCalls == 2
\* deliveries of a simulated chunk in which a handler throws
MaxThrows == 2
\* ws.send calls, and frames being encoded at once
MaxWsSends == 3
MaxFrames == 2

VARIABLES
  \* ---- AudioStreamingService (simulator) -------------------------------
  simulationInterval,  \* FALSE = null, TRUE = an interval timer is active
  chunkIndex,          \* `let chunkIndex` of the active timer's closure
  \* ---- useAudioPlayback: React state -----------------------------------
  isPlaying,
  playbackState,       \* "idle" | "playing" | "error"
  error,               \* FALSE = null, TRUE = an error object
  bufferedChunks,
  \* ---- useAudioPlayback: refs ------------------------------------------
  soundRef,            \* 0 = null, else the sound made for chunk with that seq
  audioQueueRef,       \* sequence of chunks
  isProcessingRef,
  \* ---- playback units (expo-av Sound objects), by the seq of their chunk
  soundState,          \* "none" | "playing" | "paused" | "stopped"
                       \* | "finished" | "unloaded"
  \* ---- activations of async functions ----------------------------------
  loops,               \* running processAudioQueue activations
  stopOp,              \* stopPlayback: pc "idle" | "stopAsync" | "unloadAsync"
  pauseOp,             \* pausePlayback: pc "idle" | "pauseAsync"
  resumeOp,            \* resumePlayback: pc "idle" | "playAsync"
                       \* (each with the sound the awaited call was made on)
  \* ---- history ---------------------------------------------------------
  arrivals,            \* number of handleIncomingAudioChunk calls so far
  played,              \* the last two chunks playAudioChunk was invoked on,
                       \* in call order
  stopCompleted,       \* a stopPlayback call returned, no chunk arrived since
  emitted,             \* the last two indices the simulator emitted in
                       \* its current run
  pauseCompleted,      \* a pausePlayback call returned without an error, and
                       \* resumePlayback and stopPlayback were not called since
  calls,               \* calls and throws so far (bounded by MaxCalls)
  \* ---- useAudioPlayback: volume ----------------------------------------
  volume,              \* React state, in tenths (10 = 1.0)
  soundVolume,         \* the volume of each playback unit, in tenths
  volOp,               \* adjustVolume: pc "idle" | "setVolumeAsync", with
                       \* the sound and the volume of the awaited call
  lastVolumeCall,      \* the argument of the latest adjustVolume call
  \* ---- AudioStreamingService (event bus) -------------------------------
  listeners,           \* the Map: event -> array of callbacks
  emitting,            \* the emit() in progress: its forEach position
  invoked,             \* callbacks the latest emit() has invoked, in order
  snapshot,            \* the event's array when the latest emit() began
  threw,               \* the latest emit() ended by an exception
  \* ---- useAudioRecording: React state ----------------------------------
  isRecording,
  recordingState,      \* "idle" | "recording" | "error"
  recError,            \* the hook's error: FALSE = null
  duration,
  chunksRecorded,
  rendered,            \* isRecording and duration as of the latest render:
                       \* what the functions handed to the UI close over
  \* ---- useAudioRecording: refs -----------------------------------------
  recordingRef,        \* 0 = null, 1 = an Audio.Recording
  durationIntervalRef, \* 0 = null, else the id of an interval timer
  startTimeRef,        \* -1 = null, else a time in seconds
  chunkCountRef,
  \* ---- useAudioRecording: timers, activations, time --------------------
  liveTimers,          \* ids of duration intervals set and not cleared
  startsPending,       \* startRecording activations awaiting setAudioModeAsync
  chunkCycle,          \* "none" | "prepare": the chunk cycle's position
  clock,               \* Date.now() in seconds
  recCalls,            \* calls of the recording hook and throws so far
  recStopped,          \* stopRecording was called, and startRecording and
                       \* resumeRecording were not called since
  \* ---- AudioStreamingService (retained buffer) -------------------------
  chunkBuffer,         \* the chunks sendAudioChunk retains, oldest first
  sent,                \* number of sendAudioChunk calls so far
  sinceClear,          \* ... of them since the buffer was last emptied
  \* ---- web page (page.tsx) ----------------------------------------------
  transcription,       \* useState('')
  jokeResponse,        \* useState('')
  currentExpression,   \* FALSE = null, TRUE = an expression is shown
  streamingAudioRef,   \* NoRef = null, or [chunks, sessionId, type]
  currentAudioRef,     \* 0 = null, or the Audio element it holds
  audios,              \* the Audio elements made so far: for each its
                       \* kind, its state, whether its play() promise is
                       \* pending and whether its play retry is scheduled
  isPlayingFacialJoke, \* useState(false)
  combinedArray,       \* the bytes of the latest playStreamingAudio call
  readyState,          \* ws.readyState; "none" before the socket is created
  webMsgs,             \* number of messages received so far
  announced,           \* the streaming joke announced and not yet ended:
                       \* its session and the bytes of its chunks received
  \* ---- AudioStreamingService: the simulator's timers told apart ---------
  simTimers,           \* the live interval timers: timer id -> the chunkIndex
                       \* of its closure
  simRef,              \* this.simulationInterval: 0 = null, or a timer id
  simIds,              \* number of setInterval calls so far
  simEmitted,          \* the indices emitted so far, in order
  simCalls,            \* calls of simulateIncomingAudioChunks/stopSimulation
  simThrows,           \* deliveries in which a handler threw
  \* ---- useAudioPlayback: the effect's cleanup ----------------------------
  unmounted,           \* the cleanup returned by the effect has run
  \* ---- web page (page.tsx): startup, sending and teardown ---------------
  startup,             \* startEverything: "awaiting" getUserMedia,
                       \* "running" (the rest of it has run) or "failed"
  pageUnmounted,       \* the cleanup of the page's effect has run
  tracksLive,          \* the media stream exists and its tracks run
  contextState,        \* the AudioContext: "none", "running" or "closed"
  frameTimer,          \* the frame interval is live
  framesPending,       \* frames handed to canvas.toBlob, not yet encoded
  wsSent               \* the ws.send calls so far: type, session_id, the
                       \* readyState at the call, whether after the cleanup

simVars  == <<simulationInterval, chunkIndex>>
hookVars == <<isPlaying, playbackState, error, bufferedChunks, soundRef,
              audioQueueRef, isProcessingRef, loops>>
opVars   == <<stopOp, pauseOp, resumeOp>>
histVars == <<arrivals, played, stopCompleted, emitted>>
volVars  == <<volume, volOp, lastVolumeCall>>
playVars == <<simVars, hookVars, soundState, opVars, histVars, calls,
              volVars, soundVolume, pauseCompleted>>
busVars  == <<listeners, emitting, invoked, snapshot, threw>>
recVars  == <<isRecording, recordingState, recError, duration, chunksRecorded,
              rendered, recordingRef, durationIntervalRef, startTimeRef,
              chunkCountRef, liveTimers, startsPending, chunkCycle, clock,
              recCalls, recStopped>>
bufVars  == <<chunkBuffer, sent, sinceClear>>
audioVars == <<currentAudioRef, audios, isPlayingFacialJoke>>
webVars  == <<transcription, jokeResponse, currentExpression,
              streamingAudioRef, currentAudioRef, audios,
              isPlayingFacialJoke, combinedArray, readyState,
              webMsgs, announced>>
timerVars == <<simTimers, simRef, simIds, simEmitted, simCalls, simThrows>>
pageVars == <<startup, pageUnmounted, tracksLive, contextState, frameTimer,
              framesPending, wsSent>>
mountVars == <<unmounted, pageVars>>
vars     == <<playVars, busVars, recVars, bufVars, webVars, timerVars, mountVars>>

\* ws.readyState === WebSocket.OPEN
wsOpen == readyState = "OPEN"

SoundIds == 1..(IF MaxArrivals > simChunkCount THEN MaxArrivals ELSE simChunkCount)

\* The outcomes of an awaited device or file-system call: it returns (TRUE)
\* or throws (FALSE).
Outcomes == IF calls < MaxCalls THEN BOOLEAN ELSE {TRUE}
Outcome(ok) == calls' = IF ok THEN calls ELSE calls + 1

\* Sound objects are reachable through soundRef, through the activation of
\* playAudioChunk that made them and awaits them, and through a call made on
\* them; the state of an unreachable sound is not kept.
SoundsVol(ss, sv) ==
  LET live == {soundRef', stopOp'.target, pauseOp'.target, resumeOp'.target,
               volOp'.target}
              \cup {l.chunk : l \in {m \in loops' : m.pc \in {"playing", "unload"}}}
  IN /\ soundState' = [x \in SoundIds |-> IF x \in live THEN ss[x] ELSE "none"]
     /\ soundVolume' = [x \in SoundIds |-> IF x \in live THEN sv[x] ELSE initialVolume]

\* ... when no sound's volume is changed
Sounds(ss) == SoundsVol(ss, soundVolume)

\* An AudioChunk: `index` is the producer's number, `seq` identifies the
\* object (the ordinal of its arrival at the playback handler).
Chunk(i, n) == [index |-> i, seq |-> n]

(***************************************************************************)
(* useAudioPlayback                                                        *)
(***************************************************************************)

\* The handler registered with AudioStreamingService.on is the one of the
\* first render (the effect has no dependencies), whose isPlaying is the
\* initial state.
handlerIsPlaying == FALSE

\* ... and so is the volume its processAudioQueue and playAudioChunk see
handlerVolume == initialVolume

\* audioQueueRef.current.push(audioChunk)
Enqueue(q, c) == Append(q, c)

\* Variant: pop() in place of shift(): the newest chunk is taken
DequeueNewest(q) == q[Len(q)]

\* audioQueueRef.current.shift(): the chunk removed, and the queue left
Dequeue(q) == Head(q)
AfterDequeue(q) == Tail(q)

\* Variant: the buffer threshold is not tested
ShouldStartDrainUnbuffered(processing, qlen, playing) == ~processing

\* the condition under which handleIncomingAudioChunk calls processAudioQueue
ShouldStartDrain(processing, qlen, playing) ==
  ~processing /\ (qlen >= bufferSize \/ playing)

\* the while condition of processAudioQueue
QueueHasChunk(q) == Len(q) > 0

\* One pass of the while loop of processAudioQueue up to the first await of
\* playAudioChunk (the write of the temporary file): the head is removed,
\* the buffered count set, and playAudioChunk invoked on it.
DrainIteration(q, rest, v) ==
  LET c == Dequeue(q) IN
  /\ audioQueueRef' = AfterDequeue(q)
  /\ bufferedChunks' = Len(AfterDequeue(q))
  /\ played' = IF played = <<>> THEN <<c>> ELSE <<played[Len(played)], c>>
  /\ loops' = rest \cup {[pc |-> "write", chunk |-> c.seq, vol |-> v]}

\* Variant: the finally block leaves isProcessingRef set
DrainFinallyKeepsFlag ==
  /\ UNCHANGED isProcessingRef
  /\ playbackState' = "idle"
  /\ isPlaying' = FALSE

\* finally { isProcessingRef.current = false; IDLE; setIsPlaying(false) }
DrainFinally ==
  /\ isProcessingRef' = FALSE
  /\ playbackState' = "idle"
  /\ isPlaying' = FALSE

\* processAudioQueue(), called synchronously when the queue is q and
\* the buffered count b: sets audioQueueRef, bufferedChunks, isProcessingRef,
\* playbackState, loops and played.
processAudioQueue(q, b, v) ==
  IF isProcessingRef \/ Len(q) = 0
  THEN /\ audioQueueRef' = q
       /\ bufferedChunks' = b
       /\ UNCHANGED <<isProcessingRef, playbackState, loops, played>>
  ELSE /\ isProcessingRef' = TRUE
       /\ playbackState' = "playing"
       /\ DrainIteration(q, loops, v)

\* handleIncomingAudioChunk(audioChunk): sets the playback hook's variables
\* other than the sounds
handleIncomingAudioChunk(c) ==
  LET q == Enqueue(audioQueueRef, c) IN
  /\ arrivals' = arrivals + 1
  /\ stopCompleted' = FALSE
  /\ IF ShouldStartDrain(isProcessingRef, Len(q), handlerIsPlaying)
     THEN processAudioQueue(q, Len(q), handlerVolume)
     ELSE /\ audioQueueRef' = q
          /\ bufferedChunks' = Len(q)
          /\ UNCHANGED <<isProcessingRef, playbackState, loops, played>>
  /\ UNCHANGED <<isPlaying, error, soundRef>>

\* the activation l of processAudioQueue moves to pc
LoopTo(l, pc) == loops' = (loops \ {l}) \cup {[l EXCEPT !.pc = pc]}

\* Variant: the catch block does not set the error
CaughtSilently(ok) == UNCHANGED error

\* catch (err) { setError(err) } of playAudioChunk, stopPlayback, ...
Caught(ok) == error' = IF ok THEN error ELSE TRUE

\* playAudioChunk: FileSystem.writeAsStringAsync returned or threw
WriteDone(l, ok) ==
  /\ l.pc = "write"
  /\ LoopTo(l, IF ok THEN "create" ELSE "delay")
  /\ Caught(ok)
  /\ UNCHANGED <<isPlaying, playbackState, bufferedChunks, soundRef,
                 audioQueueRef, isProcessingRef>>
  /\ UNCHANGED <<simVars, opVars, histVars>>
  /\ UNCHANGED volVars
  /\ UNCHANGED pauseCompleted
  /\ Sounds(soundState)
  /\ Outcome(ok)
  /\ UNCHANGED <<busVars, recVars, bufVars, webVars, timerVars, mountVars>>

\* playAudioChunk: Audio.Sound.createAsync({shouldPlay: true}) returned the
\* sound (soundRef.current = sound; setIsPlaying(true)) or threw
CreateDone(l, ok) ==
  /\ l.pc = "create"
  /\ LoopTo(l, IF ok THEN "playing" ELSE "delay")
  /\ Caught(ok)
  /\ soundRef' = IF ok THEN l.chunk ELSE soundRef
  /\ isPlaying' = IF ok THEN TRUE ELSE isPlaying
  /\ UNCHANGED <<playbackState, bufferedChunks, audioQueueRef, isProcessingRef>>
  /\ UNCHANGED <<simVars, opVars, histVars>>
  /\ UNCHANGED volVars
  /\ UNCHANGED pauseCompleted
  /\ SoundsVol(IF ok THEN [soundState EXCEPT ![l.chunk] = "playing"]
                     ELSE soundState,
               IF ok THEN [soundVolume EXCEPT ![l.chunk] = l.vol]
                     ELSE soundVolume)
  /\ Outcome(ok)
  /\ UNCHANGED <<busVars, recVars, bufVars, webVars, timerVars, mountVars>>

\* the status callback saw didJustFinish: the promise resolves and
\* sound.unloadAsync() is called
SoundFinished(l) ==
  /\ l.pc = "playing"
  /\ soundState[l.chunk] = "playing"
  /\ LoopTo(l, "unload")
  /\ UNCHANGED <<isPlaying, playbackState, error, bufferedChunks, soundRef,
                 audioQueueRef, isProcessingRef>>
  /\ UNCHANGED <<simVars, opVars, histVars, calls>>
  /\ UNCHANGED volVars
  /\ UNCHANGED pauseCompleted
  /\ Sounds([soundState EXCEPT ![l.chunk] = "finished"])
  /\ UNCHANGED <<busVars, recVars, bufVars, webVars, timerVars, mountVars>>

\* playAudioChunk: sound.unloadAsync() returned (FileSystem.deleteAsync is
\* called) or threw
UnloadDone(l, ok) ==
  /\ l.pc = "unload"
  /\ LoopTo(l, IF ok THEN "delete" ELSE "delay")
  /\ Caught(ok)
  /\ UNCHANGED <<isPlaying, playbackState, bufferedChunks, soundRef,
                 audioQueueRef, isProcessingRef>>
  /\ UNCHANGED <<simVars, opVars, histVars>>
  /\ UNCHANGED volVars
  /\ UNCHANGED pauseCompleted
  /\ Sounds(IF ok THEN [soundState EXCEPT ![l.chunk] = "unloaded"] ELSE soundState)
  /\ Outcome(ok)
  /\ UNCHANGED <<busVars, recVars, bufVars, webVars, timerVars, mountVars>>

\* playAudioChunk: FileSystem.deleteAsync returned or threw; playAudioChunk
\* returns and processAudioQueue starts its 10 ms timer
DeleteDone(l, ok) ==
  /\ l.pc = "delete"
  /\ LoopTo(l, "delay")
  /\ Caught(ok)
  /\ UNCHANGED <<isPlaying, playbackState, bufferedChunks, soundRef,
                 audioQueueRef, isProcessingRef>>
  /\ UNCHANGED <<simVars, opVars, histVars>>
  /\ UNCHANGED volVars
  /\ UNCHANGED pauseCompleted
  /\ Sounds(soundState)
  /\ Outcome(ok)
  /\ UNCHANGED <<busVars, recVars, bufVars, webVars, timerVars, mountVars>>

\* processAudioQueue: the 10 ms timer fired and the while condition finds a
\* chunk in the queue
DrainNext(l) ==
  /\ l.pc = "delay"
  /\ QueueHasChunk(audioQueueRef)
  /\ DrainIteration(audioQueueRef, loops \ {l}, l.vol)
  /\ UNCHANGED <<isPlaying, playbackState, error, soundRef, isProcessingRef>>
  /\ UNCHANGED <<simVars, opVars, arrivals, stopCompleted, emitted, calls>>
  /\ UNCHANGED volVars
  /\ UNCHANGED pauseCompleted
  /\ Sounds(soundState)
  /\ UNCHANGED <<busVars, recVars, bufVars, webVars, timerVars, mountVars>>

\* processAudioQueue: the 10 ms timer fired, the queue is empty: the loop
\* ends and the finally block runs
DrainExit(l) ==
  /\ l.pc = "delay"
  /\ ~QueueHasChunk(audioQueueRef)
  /\ loops' = loops \ {l}
  /\ DrainFinally
  /\ UNCHANGED <<error, bufferedChunks, soundRef, audioQueueRef>>
  /\ UNCHANGED <<simVars, opVars, histVars, calls>>
  /\ UNCHANGED volVars
  /\ UNCHANGED pauseCompleted
  /\ Sounds(soundState)
  /\ UNCHANGED <<busVars, recVars, bufVars, webVars, timerVars, mountVars>>

Idle == [pc |-> "idle", target |-> 0]
Awaiting(pc, snd) == [pc |-> pc, target |-> snd]

\* what stopAsync, pauseAsync and playAsync do to a sound
Stopped(st) == IF st \in {"playing", "paused", "finished"} THEN "stopped" ELSE st
Paused(st)  == IF st = "playing" THEN "paused" ELSE st
Resumed(st) == IF st \in {"paused", "stopped"} THEN "playing" ELSE st

\* Variant: stopPlayback clears the queue and leaves the buffered count
StopClearKeepsCount ==
  /\ audioQueueRef' = <<>>
  /\ isProcessingRef' = FALSE
  /\ UNCHANGED bufferedChunks
  /\ isPlaying' = FALSE
  /\ playbackState' = "idle"

\* stopPlayback, after the active sound is dealt with: the queue is
\* cleared and the flags reset
StopClear ==
  /\ audioQueueRef' = <<>>
  /\ isProcessingRef' = FALSE
  /\ bufferedChunks' = 0
  /\ isPlaying' = FALSE
  /\ playbackState' = "idle"

\* stopPlayback() is called
StopPlayback ==
  /\ stopOp.pc = "idle" /\ calls < MaxCalls
  /\ calls' = calls + 1
  /\ IF soundRef # 0
     THEN /\ stopOp' = Awaiting("stopAsync", soundRef)
          /\ UNCHANGED <<isPlaying, playbackState, bufferedChunks,
                         audioQueueRef, isProcessingRef, stopCompleted>>
     ELSE /\ StopClear
          /\ stopCompleted' = TRUE
          /\ UNCHANGED stopOp
  /\ UNCHANGED <<error, soundRef, loops>>
  /\ UNCHANGED <<simVars, pauseOp, resumeOp, arrivals, played, emitted>>
  /\ UNCHANGED volVars
  /\ pauseCompleted' = FALSE
  /\ Sounds(soundState)
  /\ UNCHANGED <<busVars, recVars, bufVars, webVars, timerVars, mountVars>>

\* stopPlayback: soundRef.current.stopAsync() returned (then
\* soundRef.current.unloadAsync() is called) or threw
StopAsyncDone(ok) ==
  /\ stopOp.pc = "stopAsync"
  /\ IF ok /\ soundRef # 0
     THEN /\ stopOp' = Awaiting("unloadAsync", soundRef)
          /\ UNCHANGED <<error, stopCompleted>>
     ELSE /\ error' = TRUE
          /\ stopOp' = Idle
          /\ stopCompleted' = TRUE
  /\ UNCHANGED <<isPlaying, playbackState, bufferedChunks, soundRef,
                 audioQueueRef, isProcessingRef, loops>>
  /\ UNCHANGED <<simVars, pauseOp, resumeOp, arrivals, played, emitted>>
  /\ UNCHANGED volVars
  /\ UNCHANGED pauseCompleted
  /\ Sounds(IF ok THEN [soundState EXCEPT ![stopOp.target] = Stopped(@)]
            ELSE soundState)
  /\ Outcome(ok)
  /\ UNCHANGED <<busVars, recVars, bufVars, webVars, timerVars, mountVars>>

\* stopPlayback: soundRef.current.unloadAsync() returned (soundRef.current =
\* null, then the queue and flags are cleared) or threw
StopUnloadDone(ok) ==
  /\ stopOp.pc = "unloadAsync"
  /\ IF ok
     THEN /\ soundRef' = 0
          /\ StopClear
          /\ UNCHANGED error
     ELSE /\ error' = TRUE
          /\ UNCHANGED <<soundRef, audioQueueRef, isProcessingRef,
                         bufferedChunks, isPlaying, playbackState>>
  /\ stopOp' = Idle
  /\ stopCompleted' = TRUE
  /\ UNCHANGED loops
  /\ UNCHANGED <<simVars, pauseOp, resumeOp, arrivals, played, emitted>>
  /\ UNCHANGED volVars
  /\ UNCHANGED pauseCompleted
  /\ Sounds(IF ok THEN [soundState EXCEPT ![stopOp.target] = "unloaded"]
            ELSE soundState)
  /\ Outcome(ok)
  /\ UNCHANGED <<busVars, recVars, bufVars, webVars, timerVars, mountVars>>

\* pausePlayback: isProcessingRef.current = false; setIsPlaying(false); IDLE
PauseFlags ==
  /\ isProcessingRef' = FALSE
  /\ isPlaying' = FALSE
  /\ playbackState' = "idle"

\* pausePlayback() is called
PausePlayback ==
  /\ pauseOp.pc = "idle" /\ calls < MaxCalls
  /\ calls' = calls + 1
  /\ IF soundRef # 0
     THEN /\ pauseOp' = Awaiting("pauseAsync", soundRef)
          /\ UNCHANGED <<isProcessingRef, isPlaying, playbackState,
                         pauseCompleted>>
     ELSE /\ PauseFlags
          /\ pauseCompleted' = TRUE
          /\ UNCHANGED pauseOp
  /\ UNCHANGED <<error, bufferedChunks, soundRef, audioQueueRef, loops>>
  /\ UNCHANGED <<simVars, stopOp, resumeOp, histVars>>
  /\ UNCHANGED volVars
  /\ Sounds(soundState)
  /\ UNCHANGED <<busVars, recVars, bufVars, webVars, timerVars, mountVars>>

\* pausePlayback: soundRef.current.pauseAsync() returned or threw
PauseAsyncDone(ok) ==
  /\ pauseOp.pc = "pauseAsync"
  /\ pauseOp' = Idle
  /\ IF ok
     THEN /\ PauseFlags
          /\ pauseCompleted' = TRUE
          /\ UNCHANGED error
     ELSE /\ error' = TRUE
          /\ UNCHANGED <<isProcessingRef, isPlaying, playbackState,
                         pauseCompleted>>
  /\ UNCHANGED <<bufferedChunks, soundRef, audioQueueRef, loops>>
  /\ UNCHANGED <<simVars, stopOp, resumeOp, histVars>>
  /\ UNCHANGED volVars
  /\ Sounds(IF ok THEN [soundState EXCEPT ![pauseOp.target] = Paused(@)]
            ELSE soundState)
  /\ Outcome(ok)
  /\ UNCHANGED <<busVars, recVars, bufVars, webVars, timerVars, mountVars>>

\* resumePlayback() is called
ResumePlayback ==
  /\ resumeOp.pc = "idle" /\ calls < MaxCalls
  /\ calls' = calls + 1
  /\ IF soundRef # 0
     THEN /\ resumeOp' = Awaiting("playAsync", soundRef)
          /\ UNCHANGED <<audioQueueRef, bufferedChunks, isProcessingRef,
                         playbackState, loops, played>>
     ELSE /\ processAudioQueue(audioQueueRef, bufferedChunks, volume)
          /\ UNCHANGED resumeOp
  /\ UNCHANGED <<isPlaying, error, soundRef>>
  /\ UNCHANGED <<simVars, stopOp, pauseOp, arrivals, stopCompleted, emitted>>
  /\ UNCHANGED volVars
  /\ pauseCompleted' = FALSE
  /\ Sounds(soundState)
  /\ UNCHANGED <<busVars, recVars, bufVars, webVars, timerVars, mountVars>>

\* resumePlayback: soundRef.current.playAsync() returned or threw
ResumePlayDone(ok) ==
  /\ resumeOp.pc = "playAsync"
  /\ resumeOp' = Idle
  /\ IF ok
     THEN /\ isPlaying' = TRUE
          /\ playbackState' = "playing"
          /\ UNCHANGED error
     ELSE /\ error' = TRUE
          /\ UNCHANGED <<isPlaying, playbackState>>
  /\ UNCHANGED <<bufferedChunks, soundRef, audioQueueRef, isProcessingRef, loops>>
  /\ UNCHANGED <<simVars, stopOp, pauseOp, histVars>>
  /\ UNCHANGED volVars
  /\ UNCHANGED pauseCompleted
  /\ Sounds(IF ok THEN [soundState EXCEPT ![resumeOp.target] = Resumed(@)]
            ELSE soundState)
  /\ Outcome(ok)
  /\ UNCHANGED <<busVars, recVars, bufVars, webVars, timerVars, mountVars>>

\* the arguments adjustVolume is called with, in tenths: -0.1, 0.5, 1.1
VolumeArgs == {-1, 5, 11}

VolIdle == [pc |-> "idle", target |-> 0, v |-> 0]

\* a sound on which setVolumeAsync has an effect
Loaded(st) == st \in {"playing", "paused", "stopped", "finished"}

\* Variant: only the lower bound is tested
VolumeInRangeLowerOnly(v) == ~(v < 0)

\* if (newVolume < 0 || newVolume > 1) return
VolumeInRange(v) == ~(v < 0 \/ v > 10)

\* adjustVolume(newVolume) is called: out of range it returns at once; else
\* setVolume(newVolume), and setVolumeAsync is awaited on soundRef.current
\* if there is one
AdjustVolume(v) ==
  /\ volOp.pc = "idle" /\ calls < MaxCalls
  /\ calls' = calls + 1
  /\ lastVolumeCall' = v
  /\ IF ~VolumeInRange(v)
     THEN UNCHANGED <<volume, volOp>>
     ELSE /\ volume' = v
          /\ volOp' = IF soundRef # 0
                      THEN [pc |-> "setVolumeAsync", target |-> soundRef, v |-> v]
                      ELSE VolIdle
  /\ UNCHANGED <<hookVars, simVars, opVars, histVars>>
  /\ Sounds(soundState)
  /\ UNCHANGED <<busVars, recVars, bufVars, webVars, timerVars, mountVars>>
  /\ UNCHANGED pauseCompleted

\* adjustVolume: soundRef.current.setVolumeAsync(newVolume) returned or threw
AdjustVolumeDone(ok) ==
  /\ volOp.pc = "setVolumeAsync"
  /\ volOp' = VolIdle
  /\ Caught(ok)
  /\ UNCHANGED <<isPlaying, playbackState, bufferedChunks, soundRef,
                 audioQueueRef, isProcessingRef, loops>>
  /\ UNCHANGED <<simVars, opVars, histVars, volume, lastVolumeCall>>
  /\ SoundsVol(soundState,
               IF ok /\ Loaded(soundState[volOp.target])
               THEN [soundVolume EXCEPT ![volOp.target] = volOp.v]
               ELSE soundVolume)
  /\ Outcome(ok)
  /\ UNCHANGED <<busVars, recVars, bufVars, webVars, timerVars, mountVars>>
  /\ UNCHANGED pauseCompleted

(***************************************************************************)
(* AudioStreamingService: the chunk simulator                              *)
(***************************************************************************)

\* startPlayback(): setError(null), then simulateIncomingAudioChunks():
\* chunkIndex = 0, any running interval is cleared, a new one is set
StartPlayback ==
  /\ calls < MaxCalls
  /\ calls' = calls + 1
  /\ error' = FALSE
  /\ chunkIndex' = 0
  /\ simulationInterval' = TRUE
  /\ emitted' = <<>>
  /\ UNCHANGED <<isPlaying, playbackState, bufferedChunks, soundRef,
                 audioQueueRef, isProcessingRef, loops>>
  /\ UNCHANGED <<soundState, soundVolume, opVars, arrivals, played, stopCompleted>>
  /\ UNCHANGED <<volVars, busVars, recVars, bufVars, webVars, timerVars, mountVars>>
  /\ UNCHANGED pauseCompleted

\* Variant: the index wraps around after 4
NextChunkIndexWrapped(ci) == (ci + 1) % 4

\* index: chunkIndex++ leaves chunkIndex one higher
NextChunkIndex(ci) == ci + 1

\* Variant: the simulator stops one chunk early
SimulationCompleteEarly(next) == next + 1 >= simChunkCount

\* the simulator stops after the tick that leaves chunkIndex at next
SimulationComplete(next) == next >= simChunkCount

\* the interval callback: a mock chunk with index chunkIndex++ is emitted as
\* 'incoming_audio_chunk' (the playback hook's handler is the listener), and
\* the interval is cleared once chunkIndex >= 10
SimTick ==
  /\ simulationInterval
  /\ chunkIndex' = NextChunkIndex(chunkIndex)
  /\ emitted' = IF emitted = <<>> THEN <<chunkIndex>>
                ELSE <<emitted[Len(emitted)], chunkIndex>>
  /\ handleIncomingAudioChunk(Chunk(chunkIndex, arrivals + 1))
  /\ simulationInterval' = ~SimulationComplete(NextChunkIndex(chunkIndex))
  /\ UNCHANGED <<opVars, calls>>
  /\ UNCHANGED volVars
  /\ UNCHANGED pauseCompleted
  /\ Sounds(soundState)
  /\ UNCHANGED <<busVars, recVars, bufVars, webVars, timerVars, mountVars>>

(***************************************************************************)
(* AudioStreamingService: the event bus                                    *)
(***************************************************************************)
Events   == {"incoming_audio_chunk", "connection_status"}
Handlers == {"h1", "h2", "h3"}
Payloads == {"p1", "p2"}

NoEmit == [event |-> "none", i |-> 0, len |-> 0, data |-> "none"]

\* on(event, callback)
On(e, h) ==
  /\ emitting = NoEmit
  /\ IF e \in DOMAIN listeners
     THEN /\ Len(listeners[e]) < MaxListeners
          /\ listeners' = [listeners EXCEPT ![e] = Append(@, h)]
     ELSE listeners' = [x \in DOMAIN listeners \cup {e} |->
                          IF x = e THEN <<h>> ELSE listeners[x]]
  /\ UNCHANGED <<emitting, invoked, snapshot, threw>>
  /\ UNCHANGED <<playVars, recVars, bufVars, webVars, timerVars, mountVars>>

\* Variant: an absent callback is reported at the last position, as
\* splice(-1, 1) would take it
IndexOfOrLast(cbs, h) ==
  IF \E k \in 1..Len(cbs) : cbs[k] = h
  THEN CHOOSE k \in 1..Len(cbs) : cbs[k] = h /\ \A j \in 1..(k - 1) : cbs[j] # h
  ELSE Len(cbs)

\* callbacks.indexOf(callback): the first position of h in cbs, 0 if none
IndexOf(cbs, h) ==
  IF \E k \in 1..Len(cbs) : cbs[k] = h
  THEN CHOOSE k \in 1..Len(cbs) : cbs[k] = h /\ \A j \in 1..(k - 1) : cbs[j] # h
  ELSE 0

\* callbacks.splice(index, 1)
Splice(cbs, k) == [j \in 1..(Len(cbs) - 1) |-> IF j < k THEN cbs[j] ELSE cbs[j + 1]]

\* the listener map after off(event, callback): the array of e without the
\* element at indexOf(h), if the map has e and the array has h
OffListeners(ls, e, h) ==
  IF e \in DOMAIN ls /\ IndexOf(ls[e], h) > 0
  THEN [ls EXCEPT ![e] = Splice(@, IndexOf(@, h))]
  ELSE ls

\* off(event, callback)
Off(e, h) ==
  /\ emitting = NoEmit
  /\ listeners' = OffListeners(listeners, e, h)
  /\ UNCHANGED <<emitting, invoked, snapshot, threw>>
  /\ UNCHANGED <<playVars, recVars, bufVars, webVars, timerVars, mountVars>>

\* emit(event, data) is called: forEach starts on the event's array, if any
EmitBegin(e, d) ==
  /\ emitting = NoEmit
  /\ invoked' = <<>>
  /\ threw' = FALSE
  /\ IF e \in DOMAIN listeners
     THEN /\ snapshot' = listeners[e]
          /\ emitting' = [event |-> e, i |-> 1, len |-> Len(listeners[e]),
                          data |-> d]
     ELSE /\ snapshot' = <<>>
          /\ UNCHANGED emitting
  /\ UNCHANGED listeners
  /\ UNCHANGED <<playVars, recVars, bufVars, webVars, timerVars, mountVars>>

\* what forEach does after callback number i returned or threw: an
\* exception leaves forEach and emit at once
AfterCallback(em, returned) ==
  IF returned THEN [em EXCEPT !.i = em.i + 1] ELSE NoEmit

\* forEach calls the callback at its position with the data; the callback
\* returns or throws
EmitCall(returned) ==
  /\ emitting # NoEmit
  /\ emitting.i <= emitting.len
  /\ emitting.i <= Len(listeners[emitting.event])
  /\ invoked' = Append(invoked, [h |-> listeners[emitting.event][emitting.i],
                                 data |-> emitting.data])
  /\ emitting' = AfterCallback(emitting, returned)
  /\ threw' = ~returned
  /\ UNCHANGED <<listeners, snapshot>>
  /\ UNCHANGED <<playVars, recVars, bufVars, webVars, timerVars, mountVars>>

\* forEach calls the callback at its position with the data; the callback
\* calls off(e, h) and returns
EmitCallOff(e, h) ==
  /\ emitting # NoEmit
  /\ emitting.i <= emitting.len
  /\ emitting.i <= Len(listeners[emitting.event])
  /\ invoked' = Append(invoked, [h |-> listeners[emitting.event][emitting.i],
                                 data |-> emitting.data])
  /\ listeners' = OffListeners(listeners, e, h)
  /\ emitting' = AfterCallback(emitting, TRUE)
  /\ threw' = FALSE
  /\ UNCHANGED snapshot
  /\ UNCHANGED <<playVars, recVars, bufVars, webVars, timerVars, mountVars>>

\* forEach is past the last position: emit returns
EmitReturn ==
  /\ emitting # NoEmit
  /\ emitting.i > emitting.len \/ emitting.i > Len(listeners[emitting.event])
  /\ emitting' = NoEmit
  /\ UNCHANGED <<listeners, invoked, snapshot, threw>>
  /\ UNCHANGED <<playVars, recVars, bufVars, webVars, timerVars, mountVars>>

(***************************************************************************)
(* AudioStreamingService: the retained buffer                              *)
(***************************************************************************)

\* Variant: the newest chunk is dropped when the buffer is over the cap
EvictNewest(buf) ==
  IF Len(buf) > maxChunksInMemory THEN SubSeq(buf, 1, Len(buf) - 1) ELSE buf

\* if (this.chunkBuffer.length > maxChunksInMemory) this.chunkBuffer.shift()
Evict(buf) == IF Len(buf) > maxChunksInMemory THEN Tail(buf) ELSE buf

\* sendAudioChunk(audioChunk): push, then keep the buffer within the cap
SendAudioChunk ==
  /\ sent < MaxSends
  /\ chunkBuffer' = Evict(Append(chunkBuffer, Chunk(sent + 1, sent + 1)))
  /\ sent' = sent + 1
  /\ sinceClear' = sinceClear + 1
  /\ UNCHANGED <<playVars, busVars, recVars, webVars, timerVars, mountVars>>

\* getBufferedChunks()
getBufferedChunks == Len(chunkBuffer)

\* clearBuffer()
ClearBuffer ==
  /\ chunkBuffer' = <<>>
  /\ sinceClear' = 0
  /\ UNCHANGED sent
  /\ UNCHANGED <<playVars, busVars, recVars, webVars, timerVars, mountVars>>

(***************************************************************************)
(* useAudioRecording                                                       *)
(***************************************************************************)

\* Variant: the catch of the recording hook does not set the error value
RecCaughtSilently(ok) == recError' = recError

\* catch (err) { setError(err) } of the recording hook
RecCaught(ok) == recError' = IF ok THEN recError ELSE TRUE

RecOutcomes == IF recCalls < MaxRecCalls THEN BOOLEAN ELSE {TRUE}
RecOutcome(ok) == recCalls' = IF ok THEN recCalls ELSE recCalls + 1

\* the component renders: the functions it hands to the UI close over the
\* state of this render
Render ==
  /\ rendered # [isRecording |-> isRecording, duration |-> duration]
  /\ rendered' = [isRecording |-> isRecording, duration |-> duration]
  /\ UNCHANGED <<isRecording, recordingState, recError, duration,
                 chunksRecorded, recordingRef, durationIntervalRef,
                 startTimeRef, chunkCountRef, liveTimers, startsPending,
                 chunkCycle, clock, recCalls>>
  /\ UNCHANGED <<playVars, busVars, bufVars, webVars, timerVars, mountVars>>
  /\ UNCHANGED recStopped

\* time passes
ClockTick ==
  /\ clock < MaxClock
  /\ clock' = clock + 1
  /\ UNCHANGED <<isRecording, recordingState, recError, duration,
                 chunksRecorded, rendered, recordingRef, durationIntervalRef,
                 startTimeRef, chunkCountRef, liveTimers, startsPending,
                 chunkCycle, recCalls>>
  /\ UNCHANGED <<playVars, busVars, bufVars, webVars, timerVars, mountVars>>
  /\ UNCHANGED recStopped

\* Variant: recordNextChunk() without its guard on isRecording
recordNextChunkUnguarded(c) ==
  /\ recordingRef' = 1
  /\ chunkCycle' = "prepare"

\* recordNextChunk() of a render whose isRecording is c: it returns at once
\* unless c, and else makes a new Audio.Recording, stores it in recordingRef
\* and awaits prepareToRecordAsync
recordNextChunk(c) ==
  IF ~c
  THEN UNCHANGED <<recordingRef, chunkCycle>>
  ELSE /\ recordingRef' = 1
       /\ chunkCycle' = "prepare"

\* durationIntervalRef.current = setInterval(...): the previous id is
\* overwritten, not cleared
SetDurationInterval ==
  LET id == IF liveTimers = {} THEN 1
            ELSE 1 + CHOOSE m \in liveTimers : \A t \in liveTimers : t <= m
  IN /\ durationIntervalRef' = id
     /\ liveTimers' = liveTimers \cup {id}

\* if (durationIntervalRef.current) { clearInterval(...); ... = null }
ClearDurationInterval ==
  /\ liveTimers' = liveTimers \ {durationIntervalRef}
  /\ durationIntervalRef' = 0

\* startRecording() of the latest render is called: it returns at once if
\* that render's isRecording is true, and else awaits Audio.setAudioModeAsync
StartRecording ==
  /\ recCalls < MaxRecCalls
  /\ recCalls' = recCalls + 1
  /\ IF rendered.isRecording
     THEN UNCHANGED <<recError, recordingState, startsPending>>
     ELSE /\ recError' = FALSE
          /\ recordingState' = "recording"
          /\ startsPending' = startsPending + 1
  /\ UNCHANGED <<isRecording, duration, chunksRecorded, rendered,
                 recordingRef, durationIntervalRef, startTimeRef,
                 chunkCountRef, liveTimers, chunkCycle, clock>>
  /\ UNCHANGED <<playVars, busVars, bufVars, webVars, timerVars, mountVars>>
  /\ recStopped' = FALSE

\* startRecording: setAudioModeAsync returned (the session is set up and
\* recordNextChunk of the same render, whose isRecording is false, is
\* called) or threw
StartModeDone(ok) ==
  /\ startsPending > 0
  /\ startsPending' = startsPending - 1
  /\ RecCaught(ok)
  /\ IF ok
     THEN /\ isRecording' = TRUE
          /\ startTimeRef' = clock
          /\ chunkCountRef' = 0
          /\ chunksRecorded' = 0
          /\ SetDurationInterval
          /\ recordNextChunk(FALSE)
          /\ UNCHANGED recordingState
     ELSE /\ recordingState' = "error"
          /\ isRecording' = FALSE
          /\ UNCHANGED <<startTimeRef, chunkCountRef, chunksRecorded,
                         durationIntervalRef, liveTimers, recordingRef,
                         chunkCycle>>
  /\ UNCHANGED <<duration, rendered, clock>>
  /\ RecOutcome(ok)
  /\ UNCHANGED <<playVars, busVars, bufVars, webVars, timerVars, mountVars>>
  /\ UNCHANGED recStopped

\* a duration interval fires
DurationTick(t) ==
  /\ t \in liveTimers
  /\ startTimeRef # -1
  /\ duration' = clock - startTimeRef
  /\ UNCHANGED <<isRecording, recordingState, recError, chunksRecorded,
                 rendered, recordingRef, durationIntervalRef, startTimeRef,
                 chunkCountRef, liveTimers, startsPending, chunkCycle, clock,
                 recCalls>>
  /\ UNCHANGED <<playVars, busVars, bufVars, webVars, timerVars, mountVars>>
  /\ UNCHANGED recStopped

\* stopRecording() of the latest render is called.  recordingRef is null
\* whenever it runs, so it does not await.
StopRecording ==
  /\ recCalls < MaxRecCalls
  /\ recCalls' = recCalls + 1
  /\ IF ~rendered.isRecording
     THEN UNCHANGED <<isRecording, recordingState, recordingRef,
                      durationIntervalRef, liveTimers, startTimeRef, duration>>
     ELSE /\ isRecording' = FALSE
          /\ recordingState' = "idle"
          /\ recordingRef' = 0
          /\ ClearDurationInterval
          /\ startTimeRef' = -1
          /\ duration' = 0
  /\ UNCHANGED <<recError, chunksRecorded, rendered, chunkCountRef,
                 startsPending, chunkCycle, clock>>
  /\ UNCHANGED <<playVars, busVars, bufVars, webVars, timerVars, mountVars>>
  /\ recStopped' = TRUE

\* pauseRecording() of the latest render is called.  recordingRef is null
\* whenever it runs, so it does not await.
PauseRecording ==
  /\ recCalls < MaxRecCalls
  /\ recCalls' = recCalls + 1
  /\ IF ~rendered.isRecording
     THEN UNCHANGED <<isRecording, recordingState, recordingRef,
                      durationIntervalRef, liveTimers>>
     ELSE /\ isRecording' = FALSE
          /\ recordingState' = "idle"
          /\ recordingRef' = 0
          /\ ClearDurationInterval
  /\ UNCHANGED <<recError, duration, chunksRecorded, rendered, startTimeRef,
                 chunkCountRef, startsPending, chunkCycle, clock>>
  /\ UNCHANGED <<playVars, busVars, bufVars, webVars, timerVars, mountVars>>
  /\ UNCHANGED recStopped

\* resumeRecording() of the latest render is called: recordNextChunk of the
\* same render, whose isRecording is false, is called
ResumeRecording ==
  /\ recCalls < MaxRecCalls
  /\ recCalls' = recCalls + 1
  /\ IF rendered.isRecording
     THEN UNCHANGED <<isRecording, recordingState, startTimeRef,
                      durationIntervalRef, liveTimers, recordingRef,
                      chunkCycle>>
     ELSE /\ isRecording' = TRUE
          /\ recordingState' = "recording"
          /\ startTimeRef' = clock - rendered.duration
          /\ SetDurationInterval
          /\ recordNextChunk(FALSE)
  /\ UNCHANGED <<recError, duration, chunksRecorded, rendered, chunkCountRef,
                 startsPending, clock>>
  /\ UNCHANGED <<playVars, busVars, bufVars, webVars, timerVars, mountVars>>
  /\ recStopped' = FALSE

(***************************************************************************)
(* useAudioPlayback: the effect and its cleanup                            *)
(***************************************************************************)
\* the function that setupWebSocketListener registers: the effect runs once,
\* in the first render, so it is that render's handleIncomingAudioChunk
registeredHandler == "h1"

\* Variant: cleanup removes the handleIncomingAudioChunk of a later render
laterRenderHandler == "h2"

\* the function that cleanup passes to off: the effect returns the cleanup
\* of the first render, which closes over that render's
\* handleIncomingAudioChunk
cleanupHandler == "h1"

\* the hook's handler is in the service's list for 'incoming_audio_chunk'
HookRegistered ==
  /\ "incoming_audio_chunk" \in DOMAIN listeners
  /\ \E k \in 1..Len(listeners["incoming_audio_chunk"]) :
       listeners["incoming_audio_chunk"][k] = registeredHandler

\* the simulator's interval callback while the hook's handler is registered
SimTickHeard ==
  /\ HookRegistered
  /\ arrivals < MaxArrivals
  /\ SimTick

\* the simulator's interval callback while no handler of the hook is
\* registered: the chunk is emitted to nobody
SimTickUnheard ==
  /\ ~HookRegistered
  /\ simulationInterval
  /\ chunkIndex' = NextChunkIndex(chunkIndex)
  /\ emitted' = IF emitted = <<>> THEN <<chunkIndex>>
                ELSE <<emitted[Len(emitted)], chunkIndex>>
  /\ simulationInterval' = ~SimulationComplete(NextChunkIndex(chunkIndex))
  /\ UNCHANGED <<hookVars, soundState, soundVolume, opVars, arrivals, played,
                 stopCompleted, calls, volVars, pauseCompleted>>
  /\ UNCHANGED <<busVars, recVars, bufVars, webVars, timerVars, mountVars>>

\* cleanup(): off, then stopAsync and unloadAsync on soundRef.current, not
\* awaited and their failures ignored (ok: they succeed), then the queue and
\* the processing flag are reset
HookCleanup(ok) ==
  /\ ~unmounted
  /\ unmounted' = TRUE
  /\ listeners' = OffListeners(listeners, "incoming_audio_chunk",
                               cleanupHandler)
  /\ audioQueueRef' = <<>>
  /\ isProcessingRef' = FALSE
  /\ UNCHANGED <<isPlaying, playbackState, error, bufferedChunks, soundRef,
                 loops>>
  /\ UNCHANGED <<simVars, opVars, histVars, calls>>
  /\ UNCHANGED volVars
  /\ UNCHANGED pauseCompleted
  /\ Sounds(IF ok /\ soundRef # 0 /\ Loaded(soundState[soundRef])
            THEN [soundState EXCEPT ![soundRef] = "unloaded"]
            ELSE soundState)
  /\ UNCHANGED <<emitting, invoked, snapshot, threw>>
  /\ UNCHANGED <<recVars, bufVars, webVars, timerVars, pageVars>>

(***************************************************************************)
(* AudioStreamingService: the simulator with its timers told apart         *)
(***************************************************************************)
SimState == [timers |-> simTimers, ref |-> simRef, ids |-> simIds]

\* clearInterval(id): the timer id fires no more; no effect if it is not live
ClearInterval(ts, id) == [t \in DOMAIN ts \ {id} |-> ts[t]]

\* simulateIncomingAudioChunks(): let chunkIndex = 0; the interval in
\* this.simulationInterval, if any, is cleared; a new one is set and stored
Simulate(s) ==
  LET cleared == IF s.ref # 0 THEN ClearInterval(s.timers, s.ref)
                 ELSE s.timers
      id == s.ids + 1
  IN [timers |-> [t \in DOMAIN cleared \cup {id} |->
                    IF t = id THEN 0 ELSE cleared[t]],
      ref |-> id, ids |-> id]

\* stopSimulation()
StopSim(s) ==
  IF s.ref # 0
  THEN [s EXCEPT !.timers = ClearInterval(@, s.ref), !.ref = 0]
  ELSE s

\* what a handler of 'incoming_audio_chunk' does when the simulator's emit
\* delivers a chunk to it
HandlerDoes == {"returns", "throws", "simulate", "stopSimulation"}

\* the service after the handlers ran
AfterHandlers(s, what) ==
  IF what = "simulate" THEN Simulate(s)
  ELSE IF what = "stopSimulation" THEN StopSim(s)
  ELSE s

\* the end of the interval callback:
\* if (chunkIndex >= 10) { clearInterval(this.simulationInterval); ... = null }
AfterTick(s, ci) ==
  IF SimulationComplete(ci)
  THEN [s EXCEPT !.timers = ClearInterval(@, s.ref), !.ref = 0]
  ELSE s

SetSimState(s) ==
  /\ simTimers' = s.timers
  /\ simRef' = s.ref
  /\ simIds' = s.ids

\* simulateIncomingAudioChunks() is called
SimulateCall ==
  /\ simCalls < MaxSimCalls
  /\ simCalls' = simCalls + 1
  /\ SetSimState(Simulate(SimState))
  /\ UNCHANGED <<simEmitted, simThrows>>
  /\ UNCHANGED <<playVars, busVars, recVars, bufVars, webVars, mountVars>>

\* stopSimulation() is called
StopSimulationCall ==
  /\ simCalls < MaxSimCalls
  /\ simCalls' = simCalls + 1
  /\ SetSimState(StopSim(SimState))
  /\ UNCHANGED <<simEmitted, simThrows>>
  /\ UNCHANGED <<playVars, busVars, recVars, bufVars, webVars, mountVars>>

\* the interval callback of the live timer t runs: the chunk with index
\* chunkIndex++ is emitted; emit has no try, so a handler that throws ends
\* the callback before its check of chunkIndex
IntervalTick(t, what) ==
  /\ t \in DOMAIN simTimers
  /\ what = "throws" => simThrows < MaxThrows
  /\ what \in {"simulate", "stopSimulation"} => simCalls < MaxSimCalls
  /\ simEmitted' = Append(simEmitted, simTimers[t])
  /\ simThrows' = IF what = "throws" THEN simThrows + 1 ELSE simThrows
  /\ simCalls' = IF what \in {"simulate", "stopSimulation"}
                 THEN simCalls + 1 ELSE simCalls
  /\ LET ci == NextChunkIndex(simTimers[t])
         s0 == [SimState EXCEPT !.timers[t] = ci]
         s1 == AfterHandlers(s0, what)
     IN SetSimState(IF what = "throws" THEN s1 ELSE AfterTick(s1, ci))
  /\ UNCHANGED <<playVars, busVars, recVars, bufVars, webVars, mountVars>>

(***************************************************************************)
(* Web page: the WebSocket message handler of page.tsx                     *)
(***************************************************************************)
\* a field the message does not have
Undef == "undefined"

WebSessions == {"s1", "s2"}

\* x || ''
OrEmpty(x) == IF x = Undef THEN "" ELSE x

\* a value that counts as true in a condition
Truthy(x) == x # Undef /\ x # ""

\* atob(s) followed by the charCodeAt loop: the bytes that the base64 text s
\* encodes; atob throws on text that is not base64
AtobThrows(s) == s \notin {"QQ==", "Qg=="}
atob(s) == IF s = "QQ==" THEN <<65>> ELSE <<66>>

\* a message with no field but its type
WebMsg(ty) ==
  [type |-> ty, text |-> Undef, joke |-> Undef, joke_response |-> Undef,
   joke_text |-> Undef, joke_message |-> Undef, original_text |-> Undef,
   streaming |-> FALSE, session_id |-> Undef, chunk_data |-> Undef,
   audio_data |-> Undef, face_detected |-> FALSE, facial_joke |-> Undef,
   facial_joke_streaming |-> FALSE, facial_joke_audio |-> Undef]

\* joke_response messages in the format of JOKE_RESPONDER_README.md
DocumentedJokeResponses ==
  {[WebMsg("joke_response") EXCEPT !.session_id = s, !.original_text = "o1",
                                   !.joke_response = "j1"] :
     s \in WebSessions}

\* joke_response messages that announce a streaming joke
StreamingJokeResponses ==
  {[WebMsg("joke_response") EXCEPT !.session_id = s, !.original_text = "o1",
                                   !.joke_text = "j2", !.streaming = TRUE] :
     s \in WebSessions}

ChunkMsg(ty, s, c) ==
  [WebMsg(ty) EXCEPT !.session_id = s, !.chunk_data = c]

EndMsg(ty, s) == [WebMsg(ty) EXCEPT !.session_id = s]

WebMessages ==
  {[WebMsg("transcription") EXCEPT !.text = "t1"]}
  \cup DocumentedJokeResponses
  \cup StreamingJokeResponses
  \cup {[WebMsg("joke_response") EXCEPT !.joke = "j3"]}
  \cup {[WebMsg("music_response") EXCEPT !.joke_message = "m1",
                                         !.original_text = "o2"]}
  \cup {[WebMsg("joke_tts_failed") EXCEPT !.joke_text = "j2"]}
  \cup {[WebMsg("expression_result") EXCEPT !.session_id = "s1",
           !.face_detected = fd, !.facial_joke = fj,
           !.facial_joke_streaming = fs, !.facial_joke_audio = fa] :
          fd \in BOOLEAN, fj \in {Undef, "f1"}, fs \in BOOLEAN,
          fa \in {Undef, "QQ=="}}
  \cup {[WebMsg("joke_audio") EXCEPT !.audio_data = a] :
          a \in {Undef, "Qg==", "!"}}
  \cup {ChunkMsg(ty, s, c) :
          ty \in {"joke_audio_chunk", "facial_joke_audio_chunk"},
          s \in WebSessions, c \in {"QQ==", "Qg==", "!"}}
  \cup {EndMsg(ty, s) :
          ty \in {"joke_audio_end", "facial_joke_audio_end"},
          s \in WebSessions}

NoRef == [chunks |-> <<>>, sessionId |-> "none", type |-> "none"]
NoAnnounce == [sessionId |-> "none", bytes |-> <<>>]

\* what the page shows: {transcription || 'Listening...'} and, if
\* jokeResponse is not empty, the joke
displayedTranscription ==
  IF transcription = "" THEN "Listening..." ELSE transcription
displayedJoke == jokeResponse

\* the combinedArray of playStreamingAudio: the chunks one after the other
RECURSIVE Combine(_)
Combine(chunks) ==
  IF chunks = <<>> THEN <<>> ELSE Head(chunks) \o Combine(Tail(chunks))

\* new Audio(url) is stored in currentAudioRef and play() is called on it;
\* setIsPlayingFacialJoke(true) for a facial joke.  cur is currentAudioRef
\* and as the elements, after the pause of the current one.
StartAudio(kind, as) ==
  LET id == Len(as) + 1 IN
  /\ audios' = Append(as, [kind |-> kind, st |-> "playing", pending |-> TRUE,
                           retry |-> FALSE])
  /\ currentAudioRef' = id
  /\ isPlayingFacialJoke' = IF kind \in {"facial", "facial_stream"} THEN TRUE
                            ELSE isPlayingFacialJoke

\* if (currentAudioRef.current) { currentAudioRef.current.pause(); ... }
PauseCurrent ==
  IF currentAudioRef # 0 /\ audios[currentAudioRef].st = "playing"
  THEN [audios EXCEPT ![currentAudioRef].st = "paused"]
  ELSE audios

\* playStreamingAudio(chunks, type): the chunks are combined into one Blob,
\* the current audio is paused, and a new Audio element plays the Blob
playStreamingAudio(chunks, type) ==
  /\ combinedArray' = Combine(chunks)
  /\ StartAudio(IF type = "facial_joke" THEN "facial_stream" ELSE "stream",
                PauseCurrent)

\* a base64 clip is played: the current audio is paused, then atob and
\* new Audio run inside a try whose catch resets the flags
PlayClip(b64, kind) ==
  /\ IF AtobThrows(b64)
     THEN /\ audios' = PauseCurrent
          /\ isPlayingFacialJoke' = IF kind = "facial" THEN FALSE
                                    ELSE isPlayingFacialJoke
          /\ UNCHANGED currentAudioRef
     ELSE StartAudio(kind, PauseCurrent)
  /\ UNCHANGED combinedArray

\* the expression_result branch
OnExpressionResult(data) ==
  /\ currentExpression' = data.face_detected
  /\ IF Truthy(data.facial_joke)
     THEN /\ jokeResponse' = data.facial_joke
          /\ IF data.facial_joke_streaming
             THEN streamingAudioRef' = [chunks |-> <<>>,
                                        sessionId |-> data.session_id,
                                        type |-> "facial_joke"]
             ELSE UNCHANGED streamingAudioRef
     ELSE UNCHANGED <<jokeResponse, streamingAudioRef>>
  /\ IF Truthy(data.facial_joke_audio) /\ ~data.facial_joke_streaming
     THEN PlayClip(data.facial_joke_audio, "facial")
     ELSE UNCHANGED <<audioVars, combinedArray>>
  /\ UNCHANGED transcription

\* the second joke_response branch, for streaming jokes
OnStreamingJokeResponse(data) ==
  /\ jokeResponse' = OrEmpty(data.joke_text)
  /\ transcription' = OrEmpty(data.original_text)
  /\ streamingAudioRef' = [chunks |-> <<>>, sessionId |-> data.session_id,
                           type |-> "joke"]
  /\ UNCHANGED <<currentExpression, audioVars, combinedArray>>

\* Variant: any collection in progress takes the message
AnySession(ref, data) == ref # NoRef

\* streamingAudioRef.current &&
\* streamingAudioRef.current.sessionId === data.session_id
SameSession(ref, data) == ref # NoRef /\ ref.sessionId = data.session_id

\* the joke_audio_chunk / facial_joke_audio_chunk branch
OnAudioChunk(data) ==
  /\ IF SameSession(streamingAudioRef, data)
     THEN IF AtobThrows(data.chunk_data)
          THEN UNCHANGED streamingAudioRef
          ELSE streamingAudioRef' =
                 [streamingAudioRef EXCEPT
                    !.chunks = Append(@, atob(data.chunk_data))]
     ELSE IF streamingAudioRef = NoRef
          THEN streamingAudioRef' = [chunks |-> <<>>,
                                     sessionId |-> data.session_id,
                                     type |-> "joke"]
          ELSE UNCHANGED streamingAudioRef
  /\ UNCHANGED <<transcription, jokeResponse, currentExpression,
                 audioVars, combinedArray>>

\* the joke_audio_end / facial_joke_audio_end branch
OnAudioEnd(data) ==
  /\ IF SameSession(streamingAudioRef, data)
     THEN /\ playStreamingAudio(streamingAudioRef.chunks,
                                streamingAudioRef.type)
          /\ streamingAudioRef' = NoRef
     ELSE UNCHANGED <<streamingAudioRef, audioVars, combinedArray>>
  /\ UNCHANGED <<transcription, jokeResponse, currentExpression>>

\* the announced streaming joke and the bytes of its chunks, as the
\* messages tell them
Announce(data) ==
  IF data.type = "joke_response" /\ data.streaming
  THEN [sessionId |-> data.session_id, bytes |-> <<>>]
  ELSE IF announced = NoAnnounce \/ announced.sessionId # data.session_id
  THEN announced
  ELSE IF data.type = "joke_audio_chunk" /\ ~AtobThrows(data.chunk_data)
  THEN [announced EXCEPT !.bytes = @ \o atob(data.chunk_data)]
  ELSE IF data.type = "joke_audio_end"
  THEN NoAnnounce
  ELSE announced

\* ws.onmessage: the branches in the order of the else-if chain
OnMessage(data) ==
  /\ wsOpen
  /\ webMsgs < MaxMsgs
  /\ webMsgs' = webMsgs + 1
  /\ announced' = Announce(data)
  /\ IF data.type = "transcription"
     THEN /\ transcription' = OrEmpty(data.text)
          /\ UNCHANGED <<jokeResponse, currentExpression, streamingAudioRef,
                         audioVars, combinedArray>>
     ELSE IF data.type = "joke_response"
     THEN /\ jokeResponse' = OrEmpty(data.joke)
          /\ transcription' = OrEmpty(data.original_text)
          /\ UNCHANGED <<currentExpression, streamingAudioRef,
                         audioVars, combinedArray>>
     ELSE IF data.type = "music_response"
     THEN /\ jokeResponse' = OrEmpty(data.joke_message)
          /\ transcription' = OrEmpty(data.original_text)
          /\ UNCHANGED <<currentExpression, streamingAudioRef,
                         audioVars, combinedArray>>
     ELSE IF data.type = "joke_tts_failed"
     THEN /\ jokeResponse' = OrEmpty(data.joke_text)
          /\ UNCHANGED <<transcription, currentExpression, streamingAudioRef,
                         audioVars, combinedArray>>
     ELSE IF data.type = "expression_result"
     THEN OnExpressionResult(data)
     ELSE IF data.type \in {"joke_audio", "music_audio"}
             /\ Truthy(data.audio_data)
     THEN /\ PlayClip(data.audio_data, "joke")
          /\ UNCHANGED <<transcription, jokeResponse, currentExpression,
                         streamingAudioRef>>
     ELSE IF data.type = "joke_response" /\ data.streaming
     THEN OnStreamingJokeResponse(data)
     ELSE IF data.type \in {"joke_audio_chunk", "facial_joke_audio_chunk"}
     THEN OnAudioChunk(data)
     ELSE IF data.type \in {"joke_audio_end", "facial_joke_audio_end"}
     THEN OnAudioEnd(data)
     ELSE UNCHANGED <<transcription, jokeResponse, currentExpression,
                      streamingAudioRef, audioVars, combinedArray>>
  /\ UNCHANGED readyState
  /\ UNCHANGED <<playVars, busVars, recVars, bufVars, timerVars, mountVars>>

\* the play() promise of the element a settles.  When it rejects, the
\* catch resets the flags, and for a clip calls load() and schedules a
\* second play() 100 ms later; play() rejects when the element may not
\* play or when a pause() interrupted it.
PlaySettled(a, ok) ==
  /\ a \in 1..Len(audios)
  /\ audios[a].pending
  /\ ok => audios[a].st = "playing"
  /\ audios' = [audios EXCEPT ![a] =
        IF ok THEN [@ EXCEPT !.pending = FALSE]
        ELSE [@ EXCEPT !.pending = FALSE, !.st = "paused",
                       !.retry = audios[a].kind \in {"joke", "facial"}]]
  /\ isPlayingFacialJoke' = IF ~ok /\ audios[a].kind # "joke" THEN FALSE
                            ELSE isPlayingFacialJoke
  /\ UNCHANGED <<currentAudioRef, transcription, jokeResponse,
                 currentExpression, streamingAudioRef, combinedArray, readyState,
                 webMsgs, announced>>
  /\ UNCHANGED <<playVars, busVars, recVars, bufVars, timerVars, mountVars>>

\* the timer of the retry fires: audio.play() on the element a, which
\* plays, or rejects again and has the flags reset
PlayRetry(a, ok) ==
  /\ a \in 1..Len(audios)
  /\ audios[a].retry
  /\ audios' = [audios EXCEPT ![a].retry = FALSE,
                              ![a].st = IF ok THEN "playing" ELSE @]
  /\ isPlayingFacialJoke' = IF ~ok /\ audios[a].kind # "joke" THEN FALSE
                            ELSE isPlayingFacialJoke
  /\ UNCHANGED <<currentAudioRef, transcription, jokeResponse,
                 currentExpression, streamingAudioRef, combinedArray, readyState,
                 webMsgs, announced>>
  /\ UNCHANGED <<playVars, busVars, recVars, bufVars, timerVars, mountVars>>

\* audio.onended / audio.onerror of the element a: currentAudioRef is set
\* to null; the handlers of the facial and the streaming audio reset
\* isPlayingFacialJoke, those of joke_audio / music_audio do not
AudioEnded(a) ==
  /\ a \in 1..Len(audios)
  /\ audios[a].st = "playing"
  /\ audios' = [audios EXCEPT ![a].st = "ended", ![a].pending = FALSE]
  /\ currentAudioRef' = 0
  /\ isPlayingFacialJoke' = IF audios[a].kind # "joke" THEN FALSE
                            ELSE isPlayingFacialJoke
  /\ UNCHANGED <<transcription, jokeResponse, currentExpression,
                 streamingAudioRef, combinedArray, readyState, webMsgs,
                 announced>>
  /\ UNCHANGED <<playVars, busVars, recVars, bufVars, timerVars, mountVars>>

\* the cleanup of the page's effect: each resource is released if its ref
\* is set: the frame interval cleared, the current audio paused and
\* dropped, the audio context closed, the tracks stopped, the socket closed
WebCleanup ==
  /\ ~pageUnmounted
  /\ pageUnmounted' = TRUE
  /\ frameTimer' = FALSE
  /\ audios' = PauseCurrent
  /\ currentAudioRef' = 0
  /\ contextState' = IF contextState = "none" THEN "none" ELSE "closed"
  /\ tracksLive' = (IF startup = "running" THEN FALSE ELSE tracksLive)
  /\ readyState' = IF readyState \in {"CONNECTING", "OPEN"} THEN "CLOSING"
                   ELSE readyState
  /\ UNCHANGED <<startup, framesPending, wsSent>>
  /\ UNCHANGED <<isPlayingFacialJoke, transcription, jokeResponse,
                 currentExpression, streamingAudioRef, combinedArray, webMsgs,
                 announced>>
  /\ UNCHANGED <<playVars, busVars, recVars, bufVars, timerVars, unmounted>>

(***************************************************************************)
(* Web page: startup, sending and teardown                                 *)
(***************************************************************************)
\* `session_${Date.now()}` of startEverything's closure
pageSessionId == "s1"

\* ws.send(JSON.stringify({type, session_id: sessionId, ...}))
WsSend(type) ==
  Append(wsSent, [type |-> type, session_id |-> pageSessionId,
                  readyState |-> readyState, unmounted |-> pageUnmounted])

\* getUserMedia settles; resolved (ok), the rest of startEverything runs:
\* streamRef, the WebSocket, the AudioContext and the processor are made.
\* Rejected, the catch logs the error
GetUserMediaDone(ok) ==
  /\ startup = "awaiting"
  /\ startup' = IF ok THEN "running" ELSE "failed"
  /\ tracksLive' = ok
  /\ readyState' = IF ok THEN "CONNECTING" ELSE readyState
  /\ contextState' = IF ok THEN "running" ELSE contextState
  /\ UNCHANGED <<pageUnmounted, frameTimer, framesPending, wsSent>>
  /\ UNCHANGED <<transcription, jokeResponse, currentExpression,
                 streamingAudioRef, audioVars, combinedArray, webMsgs,
                 announced>>
  /\ UNCHANGED <<playVars, busVars, recVars, bufVars, timerVars, unmounted>>

\* ws.onopen: session_start is sent and the frame interval started
WsOpened ==
  /\ readyState = "CONNECTING"
  /\ readyState' = "OPEN"
  /\ wsSent' = [WsSend("session_start") EXCEPT ![Len(wsSent) + 1].readyState
                                                   = "OPEN"]
  /\ frameTimer' = TRUE
  /\ UNCHANGED <<startup, pageUnmounted, tracksLive, contextState,
                 framesPending>>
  /\ UNCHANGED <<transcription, jokeResponse, currentExpression,
                 streamingAudioRef, audioVars, combinedArray, webMsgs,
                 announced>>
  /\ UNCHANGED <<playVars, busVars, recVars, bufVars, timerVars, unmounted>>

\* the connection fails, the server closes it, or the closing handshake
\* ends; the page has no onclose and no onerror handler
WsClosed ==
  /\ readyState \in {"CONNECTING", "OPEN", "CLOSING"}
  /\ readyState' = "CLOSED"
  /\ UNCHANGED pageVars
  /\ UNCHANGED <<transcription, jokeResponse, currentExpression,
                 streamingAudioRef, audioVars, combinedArray, webMsgs,
                 announced>>
  /\ UNCHANGED <<playVars, busVars, recVars, bufVars, timerVars, unmounted>>

\* processor.onaudioprocess: an audio_chunk is sent if the socket is open
OnAudioProcess ==
  /\ contextState = "running"
  /\ Len(wsSent) < MaxWsSends
  /\ wsSent' = IF wsOpen THEN WsSend("audio_chunk") ELSE wsSent
  /\ UNCHANGED <<startup, pageUnmounted, tracksLive, contextState, frameTimer,
                 framesPending>>
  /\ UNCHANGED webVars
  /\ UNCHANGED <<playVars, busVars, recVars, bufVars, timerVars, unmounted>>

\* videoRef.current: the video element, null once the page is unmounted
videoRef == ~pageUnmounted

\* the frame interval fires, captureAndSendFrame: nothing without the video
\* element, with a socket that is not open or with a video that is not
\* ready; otherwise the frame is drawn and handed to canvas.toBlob
FrameTick(ready) ==
  /\ frameTimer
  /\ framesPending < MaxFrames
  /\ framesPending' = IF videoRef /\ wsOpen /\ ready
                      THEN framesPending + 1 ELSE framesPending
  /\ UNCHANGED <<startup, pageUnmounted, tracksLive, contextState, frameTimer,
                 wsSent>>
  /\ UNCHANGED webVars
  /\ UNCHANGED <<playVars, busVars, recVars, bufVars, timerVars, unmounted>>

\* the toBlob callback and reader.onload: with a blob, the frame is sent
FrameEncoded(blob) ==
  /\ framesPending > 0
  /\ Len(wsSent) < MaxWsSends
  /\ framesPending' = framesPending - 1
  /\ wsSent' = IF blob THEN WsSend("video_frame") ELSE wsSent
  /\ UNCHANGED <<startup, pageUnmounted, tracksLive, contextState,
                 frameTimer>>
  /\ UNCHANGED webVars
  /\ UNCHANGED <<playVars, busVars, recVars, bufVars, timerVars, unmounted>>

(***************************************************************************)
(* Initial state: the service is constructed, the hooks are mounted        *)
(***************************************************************************)
InitVolume ==
  /\ volume = initialVolume
  /\ soundVolume = [s \in SoundIds |-> initialVolume]
  /\ volOp = VolIdle
  /\ lastVolumeCall = initialVolume

InitPlayback ==
  /\ simulationInterval = FALSE
  /\ chunkIndex = 0
  /\ isPlaying = FALSE
  /\ playbackState = "idle"
  /\ error = FALSE
  /\ bufferedChunks = 0
  /\ soundRef = 0
  /\ audioQueueRef = <<>>
  /\ isProcessingRef = FALSE
  /\ soundState = [s \in SoundIds |-> "none"]
  /\ loops = {}
  /\ stopOp = Idle
  /\ pauseOp = Idle
  /\ resumeOp = Idle
  /\ arrivals = 0
  /\ played = <<>>
  /\ stopCompleted = FALSE
  /\ pauseCompleted = FALSE
  /\ emitted = <<>>
  /\ calls = 0
  /\ InitVolume

InitBus ==
  /\ listeners = <<>>
  /\ emitting = NoEmit
  /\ invoked = <<>>
  /\ snapshot = <<>>
  /\ threw = FALSE

InitBuf ==
  /\ chunkBuffer = <<>>
  /\ sent = 0
  /\ sinceClear = 0

InitRec ==
  /\ isRecording = FALSE
  /\ recordingState = "idle"
  /\ recError = FALSE
  /\ duration = 0
  /\ chunksRecorded = 0
  /\ rendered = [isRecording |-> FALSE, duration |-> 0]
  /\ recordingRef = 0
  /\ durationIntervalRef = 0
  /\ startTimeRef = -1
  /\ chunkCountRef = 0
  /\ liveTimers = {}
  /\ startsPending = 0
  /\ chunkCycle = "none"
  /\ clock = 0
  /\ recCalls = 0
  /\ recStopped = FALSE

InitWeb ==
  /\ transcription = ""
  /\ jokeResponse = ""
  /\ currentExpression = FALSE
  /\ streamingAudioRef = NoRef
  /\ currentAudioRef = 0
  /\ audios = <<>>
  /\ isPlayingFacialJoke = FALSE
  /\ combinedArray = <<>>
  /\ readyState = "OPEN"
  /\ webMsgs = 0
  /\ announced = NoAnnounce
  /\ startup = "running"
  /\ pageUnmounted = FALSE
  /\ tracksLive = TRUE
  /\ contextState = "running"
  /\ frameTimer = TRUE
  /\ framesPending = 0
  /\ wsSent = <<[type |-> "session_start", session_id |-> pageSessionId,
                 readyState |-> "OPEN", unmounted |-> FALSE]>>

InitTimers ==
  /\ simTimers = <<>>
  /\ simRef = 0
  /\ simIds = 0
  /\ simEmitted = <<>>
  /\ simCalls = 0
  /\ simThrows = 0

InitHook == unmounted = FALSE

Init ==
  /\ InitPlayback /\ InitBus /\ InitRec /\ InitBuf /\ InitWeb /\ InitTimers
  /\ InitHook

\* the hook is mounted and its effect has run
InitMount ==
  /\ InitPlayback /\ InitRec /\ InitBuf /\ InitWeb /\ InitTimers /\ InitHook
  /\ listeners = [e \in {"incoming_audio_chunk"} |-> <<registeredHandler>>]
  /\ emitting = NoEmit
  /\ invoked = <<>>
  /\ snapshot = <<>>
  /\ threw = FALSE

(***************************************************************************)
(* Spec: the playback hook fed by the simulator, with startPlayback,       *)
(* stopPlayback, pausePlayback and resumePlayback called at any time       *)
(***************************************************************************)
DrainStep ==
  \E l \in loops :
    \/ \E ok \in Outcomes : WriteDone(l, ok)
    \/ \E ok \in Outcomes : CreateDone(l, ok)
    \/ SoundFinished(l)
    \/ \E ok \in Outcomes : UnloadDone(l, ok)
    \/ \E ok \in Outcomes : DeleteDone(l, ok)
    \/ DrainNext(l)
    \/ DrainExit(l)

Next ==
  \/ StartPlayback
  \/ (arrivals < MaxArrivals /\ SimTick)
  \/ DrainStep
  \/ StopPlayback
  \/ \E ok \in Outcomes : StopAsyncDone(ok)
  \/ \E ok \in Outcomes : StopUnloadDone(ok)
  \/ PausePlayback
  \/ \E ok \in Outcomes : PauseAsyncDone(ok)
  \/ ResumePlayback
  \/ \E ok \in Outcomes : ResumePlayDone(ok)

Spec == Init /\ [][Next]_vars

(***************************************************************************)
(* SpecE2E: one run of the simulator into the mounted playback hook, with  *)
(* no further call and no call that throws; every step that can be taken   *)
(* is eventually taken                                                     *)
(***************************************************************************)
InitE2E ==
  /\ InitBus /\ InitRec /\ InitBuf /\ InitWeb /\ InitTimers /\ InitHook
  /\ simulationInterval = TRUE
  /\ chunkIndex = 0
  /\ isPlaying = FALSE
  /\ playbackState = "idle"
  /\ error = FALSE
  /\ bufferedChunks = 0
  /\ soundRef = 0
  /\ audioQueueRef = <<>>
  /\ isProcessingRef = FALSE
  /\ soundState = [s \in SoundIds |-> "none"]
  /\ loops = {}
  /\ stopOp = Idle
  /\ pauseOp = Idle
  /\ resumeOp = Idle
  /\ arrivals = 0
  /\ played = <<>>
  /\ stopCompleted = FALSE
  /\ pauseCompleted = FALSE
  /\ emitted = <<>>
  /\ calls = MaxCalls
  /\ InitVolume

NextE2E ==
  \/ SimTick
  \/ DrainStep

SpecE2E == InitE2E /\ [][NextE2E]_vars /\ WF_vars(NextE2E)

(***************************************************************************)
(* SpecBus: on, off and emit called in any order                           *)
(***************************************************************************)
NextBus ==
  \/ \E e \in Events, h \in Handlers : On(e, h)
  \/ \E e \in Events, h \in Handlers : Off(e, h)
  \/ \E e \in Events, d \in Payloads : EmitBegin(e, d)
  \/ \E returned \in BOOLEAN : EmitCall(returned)
  \/ \E e \in Events, h \in Handlers : EmitCallOff(e, h)
  \/ EmitReturn

SpecBus == Init /\ [][NextBus]_vars

(***************************************************************************)
(* SpecRec: the recording hook, its functions called in any order from     *)
(* the latest render                                                       *)
(***************************************************************************)
NextRec ==
  \/ Render
  \/ ClockTick
  \/ StartRecording
  \/ \E ok \in RecOutcomes : StartModeDone(ok)
  \/ \E t \in liveTimers : DurationTick(t)
  \/ StopRecording
  \/ PauseRecording
  \/ ResumeRecording

SpecRec == Init /\ [][NextRec]_vars

(***************************************************************************)
(* SpecVol: the playback hook with adjustVolume called at any time         *)
(***************************************************************************)
NextVol ==
  \/ StartPlayback
  \/ (arrivals < MaxArrivals /\ SimTick)
  \/ DrainStep
  \/ PausePlayback
  \/ \E ok \in Outcomes : PauseAsyncDone(ok)
  \/ ResumePlayback
  \/ \E ok \in Outcomes : ResumePlayDone(ok)
  \/ \E v \in VolumeArgs : AdjustVolume(v)
  \/ \E ok \in Outcomes : AdjustVolumeDone(ok)

SpecVol == Init /\ [][NextVol]_vars

(***************************************************************************)
(* SpecBuf: sendAudioChunk and clearBuffer called in any order             *)
(***************************************************************************)
NextBuf ==
  \/ SendAudioChunk
  \/ ClearBuffer

SpecBuf == Init /\ [][NextBuf]_vars

(***************************************************************************)
(* SpecSim: simulateIncomingAudioChunks and stopSimulation called in any   *)
(* order, also from a handler, while the timers fire                       *)
(***************************************************************************)
NextSim ==
  \/ SimulateCall
  \/ StopSimulationCall
  \/ \E t \in DOMAIN simTimers, what \in HandlerDoes : IntervalTick(t, what)

SpecSim == Init /\ [][NextSim]_vars

(***************************************************************************)
(* SpecMount: the mounted playback hook fed by the simulator through the   *)
(* service's listener list, and its unmount                                *)
(***************************************************************************)
NextMount ==
  \/ StartPlayback
  \/ SimTickHeard
  \/ SimTickUnheard
  \/ DrainStep
  \/ \E ok \in BOOLEAN : HookCleanup(ok)

SpecMount == InitMount /\ [][NextMount]_vars

(***************************************************************************)
(* SpecWeb: the web page receives messages in any order                    *)
(***************************************************************************)
NextWeb ==
  \/ \E data \in WebMessages : OnMessage(data)
  \/ \E a \in 1..Len(audios) : AudioEnded(a)
  \/ WebCleanup

SpecWeb == Init /\ [][NextWeb]_vars

(***************************************************************************)
(* SpecAudio: the messages that start an audio, and what happens to the    *)
(* Audio elements                                                          *)
(***************************************************************************)
AudioMessages ==
  {m \in WebMessages :
     /\ m.type \in {"joke_audio", "expression_result", "joke_audio_chunk",
                    "joke_audio_end"}
     /\ m.session_id \in {Undef, "s1"}}

NextAudio ==
  \/ \E data \in AudioMessages : OnMessage(data)
  \/ \E a \in 1..Len(audios) : AudioEnded(a)
  \/ \E a \in 1..Len(audios), ok \in BOOLEAN : PlaySettled(a, ok)
  \/ \E a \in 1..Len(audios), ok \in BOOLEAN : PlayRetry(a, ok)

SpecAudio == Init /\ [][NextAudio]_vars

(***************************************************************************)
(* SpecPage: the web page from its mount: startup, sending, teardown       *)
(***************************************************************************)
InitPage ==
  /\ InitPlayback /\ InitBus /\ InitRec /\ InitBuf /\ InitTimers /\ InitHook
  /\ transcription = ""
  /\ jokeResponse = ""
  /\ currentExpression = FALSE
  /\ streamingAudioRef = NoRef
  /\ currentAudioRef = 0
  /\ audios = <<>>
  /\ isPlayingFacialJoke = FALSE
  /\ combinedArray = <<>>
  /\ webMsgs = 0
  /\ announced = NoAnnounce
  /\ readyState = "none"
  /\ startup = "awaiting"
  /\ pageUnmounted = FALSE
  /\ tracksLive = FALSE
  /\ contextState = "none"
  /\ frameTimer = FALSE
  /\ framesPending = 0
  /\ wsSent = <<>>

NextPage ==
  \/ \E ok \in BOOLEAN : GetUserMediaDone(ok)
  \/ WsOpened
  \/ WsClosed
  \/ OnAudioProcess
  \/ \E ready \in BOOLEAN : FrameTick(ready)
  \/ \E blob \in BOOLEAN : FrameEncoded(blob)
  \/ WebCleanup

SpecPage == InitPage /\ [][NextPage]_vars

(***************************************************************************)
(* Properties                                                              *)
(***************************************************************************)

\* a drain loop that is not suspended for ever on a sound that was stopped
\* or unloaded under it
Running(l) ==
  l.pc = "playing" => soundState[l.chunk] \in {"playing", "paused"}

\* this step starts a drain loop
DrainStarts == Cardinality(loops') > Cardinality(loops)

\* this step ends a drain loop
DrainEnds == Cardinality(loops') < Cardinality(loops)

\* C1: playAudioChunk is invoked on the chunks in the order in which
\* handleIncomingAudioChunk received them (seq is the order of arrival),
\* whatever their index: of two chunks played one after the other, the
\* second arrived later.
PlaybackOrder ==
  Len(played) = 2 => played[1].seq < played[2].seq

\* C1 witness: two chunks were played in arrival order although the index of
\* the second is lower than the index of the first.
PlaybackOrderWitness ==
  /\ Len(played) = 2
  /\ played[1].seq < played[2].seq
  /\ played[1].index > played[2].index

EndToEndDrain ==
  (~simulationInterval /\ loops = {}) =>
    /\ arrivals = simChunkCount
    /\ audioQueueRef = <<>>
    /\ bufferedChunks = 0
    /\ playbackState = "idle"

\* C4: when the drain loop ends, the queue is empty, the buffered count is 0,
\* the state is idle, and the draining and playing flags are false.
DrainCompletion ==
  [][DrainEnds => /\ audioQueueRef' = <<>>
                  /\ bufferedChunks' = 0
                  /\ playbackState' = "idle"
                  /\ ~isProcessingRef'
                  /\ ~isPlaying']_vars

\* C4 witness: after startPlayback alone, chunks were played and the drain
\* loop has ended, leaving the hook idle with nothing buffered.
DrainCompletionWitness ==
  /\ calls = 1
  /\ Len(played) = 2
  /\ loops = {}
  /\ audioQueueRef = <<>>
  /\ bufferedChunks = 0
  /\ playbackState = "idle"
  /\ ~isProcessingRef

\* C5: once stopPlayback has returned, and until a new chunk arrives, the
\* queue is empty, soundRef is null, the buffered count is 0 and the playing
\* flag is false.
StopClearsAll ==
  stopCompleted =>
    /\ audioQueueRef = <<>>
    /\ soundRef = 0
    /\ bufferedChunks = 0
    /\ ~isPlaying

\* C6: at most one drain loop is running and at most one sound is playing.
SequentialPlayback ==
  /\ Cardinality({l \in loops : Running(l)}) <= 1
  /\ Cardinality({x \in SoundIds : soundState[x] = "playing"}) <= 1

\* C7: when startRecording succeeds, the chunk cycle is under way: a
\* recording unit has been opened for the first chunk.
CaptureCycleStarts ==
  [][(startsPending' < startsPending /\ isRecording') =>
       (chunkCycle' # "none" /\ recordingRef' # 0)]_vars

\* C8: while a recording session is active there is exactly one active chunk
\* recording.
ExactlyOneRecording ==
  (isRecording /\ startsPending = 0) => recordingRef # 0

\* C9: within one run of the producer the indices it emits are strictly
\* increasing (hence unique): of two indices emitted one after the other,
\* the second is higher.
IndexIncreasing ==
  Len(emitted) = 2 => emitted[1] < emitted[2]

\* C9 witness: a second run of the simulator has emitted two chunks.
IndexIncreasingWitness ==
  /\ calls >= 2
  /\ Len(emitted) = 2
  /\ Len(played) > 0 /\ played[Len(played)].index > emitted[2]

\* C10: when emit has ended, every callback that was registered for the
\* event when it began has been invoked, also when one of them threw.
EmitFailureIsolation ==
  emitting = NoEmit =>
    /\ Len(invoked) = Len(snapshot)
    /\ \A k \in 1..Len(invoked) : invoked[k].h = snapshot[k]

\* C11: an emit() that ends has invoked every callback that was registered
\* for its event when it was called, in registration order, each with the
\* data, and no other callback.
EmitServesAll ==
  [][(emitting # NoEmit /\ emitting' = NoEmit) =>
       invoked' = [k \in 1..Len(snapshot) |->
                     [h |-> snapshot[k], data |-> emitting.data]]]_vars

\* C12: the retained buffer holds at most maxChunksInMemory chunks, they are
\* the most recently sent ones in send order, and getBufferedChunks is
\* their number.
RetainedBufferEviction ==
  /\ Len(chunkBuffer) <= maxChunksInMemory
  /\ Len(chunkBuffer) = IF sinceClear < maxChunksInMemory
                        THEN sinceClear ELSE maxChunksInMemory
  /\ \A k \in 1..Len(chunkBuffer) :
       chunkBuffer[k].seq = sent - Len(chunkBuffer) + k
  /\ getBufferedChunks = Len(chunkBuffer)

RetainedBufferEvictionWitness ==
  /\ sinceClear > maxChunksInMemory
  /\ getBufferedChunks = maxChunksInMemory
  /\ chunkBuffer[1].seq = sent - maxChunksInMemory + 1
  /\ chunkBuffer[maxChunksInMemory].seq = sent

\* C13: in one simulation run the subscriber has received exactly the
\* chunks 0, 1, ... in that order, one per tick; the timer is active exactly
\* until the chunk with index 9 has been delivered, and nothing is
\* delivered after it.
SimulationRun ==
  /\ arrivals = chunkIndex
  /\ chunkIndex <= simChunkCount
  /\ simulationInterval = (chunkIndex < simChunkCount)
  /\ Len(emitted) = (IF chunkIndex < 2 THEN chunkIndex ELSE 2)
  /\ emitted # <<>> => emitted[Len(emitted)] = chunkIndex - 1
  /\ Len(emitted) = 2 => emitted[1] = chunkIndex - 2

SimulationRunWitness ==
  /\ ~simulationInterval
  /\ arrivals = simChunkCount
  /\ emitted = <<simChunkCount - 2, simChunkCount - 1>>

\* C14: adjustVolume with a value below 0 or above 1 changes nothing of the
\* playback hook or its sounds; with a value in [0,1] it sets the volume
\* state, and makes the setVolumeAsync call on the sound soundRef holds, if
\* any; when that call returns, the sound, if still loaded, has that volume.
VolumeBounds ==
  [][/\ \A v \in VolumeArgs :
          AdjustVolume(v) =>
            IF v < 0 \/ v > 10
            THEN UNCHANGED <<volume, volOp, soundVolume, soundState, hookVars,
                             opVars, simVars, histVars>>
            ELSE /\ volume' = v
                 /\ soundRef # 0 =>
                      volOp' = [pc |-> "setVolumeAsync", target |-> soundRef,
                                v |-> v]
     /\ (AdjustVolumeDone(TRUE) /\ Loaded(soundState'[volOp.target])) =>
          soundVolume'[volOp.target] = volOp.v]_vars

VolumeBoundsWitness ==
  /\ lastVolumeCall = 11
  /\ volume = 5
  /\ volOp = VolIdle
  /\ soundRef # 0
  /\ soundState[soundRef] = "playing"
  /\ soundVolume[soundRef] = 5

\* C15: when playAudioChunk calls Audio.Sound.createAsync (the write of the
\* temporary file has returned), the volume it passes is the value of the
\* volume state, that is, the value of the latest adjustVolume in range.
VolumePersistence ==
  [][\A l \in loops : WriteDone(l, TRUE) => l.vol = volume]_vars

\* C16: from the return of pausePlayback until resumePlayback or
\* stopPlayback is called, no sound is playing, playAudioChunk is invoked on
\* no further chunk, and the chunks in the queue stay there, in place.
PauseHaltsDrain ==
  [][(pauseCompleted /\ pauseCompleted') =>
       /\ \A x \in SoundIds : soundState'[x] # "playing"
       /\ played' = played
       /\ Len(audioQueueRef') >= Len(audioQueueRef)
       /\ \A k \in 1..Len(audioQueueRef) : audioQueueRef'[k] = audioQueueRef[k]]_vars

\* C17: a resumePlayback call makes the playAsync call on the sound soundRef
\* holds if that sound is still loaded; otherwise, if the queue is not empty
\* and no drain loop is running, it starts a drain loop, which invokes
\* playAudioChunk on the head of the queue.
ResumeRestartsDrain ==
  [][ResumePlayback =>
       IF soundRef # 0 /\ Loaded(soundState[soundRef])
       THEN resumeOp' = Awaiting("playAsync", soundRef)
       ELSE (audioQueueRef # <<>> /\ loops = {}) =>
              /\ loops' # {}
              /\ played' # <<>>
              /\ played'[Len(played')] = Head(audioQueueRef)]_vars

\* a step of playAudioChunk for the activation l throws
ChunkFails(l) ==
  \/ WriteDone(l, FALSE)
  \/ CreateDone(l, FALSE)
  \/ UnloadDone(l, FALSE)
  \/ DeleteDone(l, FALSE)

\* C18: when a step of playAudioChunk throws, the error value is set, the
\* drain loop stays alive at the delay before its next iteration, and the
\* queue and the draining flag are as they were; the loop's next iteration
\* then takes the head of the queue.
ChunkFailureKeepsDraining ==
  [][\A l \in loops :
       /\ ChunkFails(l) =>
            /\ error'
            /\ [l EXCEPT !.pc = "delay"] \in loops'
            /\ audioQueueRef' = audioQueueRef
            /\ isProcessingRef' = isProcessingRef
       /\ (l.pc = "delay" /\ audioQueueRef # <<>> /\ DrainNext(l)) =>
            /\ played'[Len(played')] = Head(audioQueueRef)
            /\ [l EXCEPT !.pc = "write",
                         !.chunk = Head(audioQueueRef).seq] \in loops']_vars

ChunkFailureKeepsDrainingWitness ==
  /\ error
  /\ calls = 2
  /\ arrivals = bufferSize
  /\ stopOp = Idle /\ pauseOp = Idle /\ resumeOp = Idle
  /\ \E l \in loops : l.chunk = 2 /\ l.pc = "playing"
  /\ soundState[2] = "playing"

\* C19: the playback state becomes playing when a drain loop starts and
\* idle when it ends, and becomes error when writing the file of a chunk or
\* creating its sound fails.
PlaybackStateMachine ==
  [][/\ DrainStarts => playbackState' = "playing"
     /\ DrainEnds => playbackState' = "idle"
     /\ \A l \in loops :
          (WriteDone(l, FALSE) \/ CreateDone(l, FALSE)) =>
            playbackState' = "error"]_vars

\* C20: when stopAsync or unloadAsync throws in stopPlayback, the queue is
\* cleared all the same, the buffered count is 0, the playing flag false
\* and the state idle.
TeardownBestEffort ==
  [][(StopAsyncDone(FALSE) \/ StopUnloadDone(FALSE)) =>
       /\ audioQueueRef' = <<>>
       /\ bufferedChunks' = 0
       /\ ~isPlaying'
       /\ playbackState' = "idle"]_vars

StartFailure ==
  [][StartModeDone(FALSE) =>
       /\ recordingState' = "error"
       /\ recError'
       /\ ~isRecording'
       /\ startsPending' = startsPending - 1
       /\ liveTimers' = liveTimers
       /\ recordingRef' = recordingRef
       /\ chunkCycle' = chunkCycle]_vars

StartFailureWitness ==
  /\ recordingState = "error"
  /\ recError
  /\ ~isRecording
  /\ startsPending = 0
  /\ recCalls = 2
  /\ liveTimers = {}

\* C23: from a stopRecording call until startRecording or resumeRecording
\* is called, no recording unit is opened, the chunk cycle does not run and
\* no chunk is sent to sendAudioChunk.
StopCancelsCycle ==
  [][(recStopped /\ recStopped') =>
       /\ recordingRef' = 0
       /\ chunkCycle' = "none"
       /\ sent' = sent]_vars

StopCancelsCycleWitness ==
  /\ recStopped
  /\ ~isRecording
  /\ recordingState = "idle"
  /\ startTimeRef = -1
  /\ clock > 0
  /\ duration = 0
  /\ startsPending = 0

\* C24: a stopRecording call, made from a render that is up to date, leaves
\* the duration and the chunk counters at 0.
StopResetsCounters ==
  [][(StopRecording /\ rendered.isRecording = isRecording) =>
       /\ duration' = 0
       /\ chunkCountRef' = 0
       /\ chunksRecorded' = 0]_vars

\* C25: a resumeRecording call that resumes the session sets the chunk
\* cycle going again and leaves the chunk counter as it was.
ResumeRestartsCycle ==
  [][(ResumeRecording /\ ~rendered.isRecording) =>
       /\ chunkCycle' # "none"
       /\ recordingRef' # 0
       /\ chunkCountRef' = chunkCountRef]_vars

\* C26: off(e, h) for an event that has no listener list, or for a callback
\* that is not in the event's list, leaves the lists of all events as they
\* are.
OffUnregisteredNoOp ==
  \A e \in Events, h \in Handlers :
    (\/ e \notin DOMAIN listeners
     \/ \A k \in 1..Len(listeners[e]) : listeners[e][k] # h)
    => OffListeners(listeners, e, h) = listeners

OffUnregisteredNoOpWitness ==
  /\ emitting = NoEmit
  /\ ~threw
  /\ DOMAIN listeners = {"incoming_audio_chunk"}
  /\ listeners["incoming_audio_chunk"] = <<"h1", "h2">>

\* C29: when an emit ends without an exception, every callback that was
\* registered for the event when it began and is still registered when it
\* ends has been invoked, also when a callback called off() meanwhile.
UnsubscribeDuringEmit ==
  [][(emitting # NoEmit /\ emitting' = NoEmit /\ ~threw') =>
       \A k \in 1..Len(snapshot) :
         (\E j \in 1..Len(listeners'[emitting.event]) :
            listeners'[emitting.event][j] = snapshot[k])
         => \E m \in 1..Len(invoked') : invoked'[m].h = snapshot[k]]_vars

\* C30: when off(e, h) returns, h is not in the list of e, so that no
\* later emit(e) invokes it.
OffRemovesHandler ==
  [][\A e \in Events, h \in Handlers :
       Off(e, h) =>
         (e \in DOMAIN listeners' =>
            \A k \in 1..Len(listeners'[e]) : listeners'[e][k] # h)]_vars

\* C27: after a joke_response message in the documented format the page
\* shows the message's joke_response as the joke and its original_text as
\* the transcription.
JokeResponseDisplay ==
  [][\A m \in DocumentedJokeResponses :
       OnMessage(m) =>
         /\ displayedJoke' = m.joke_response
         /\ displayedTranscription' = m.original_text]_vars

\* C28: at joke_audio_end of an announced streaming joke the audio played
\* is the bytes of the chunks received for it since the announcement, in
\* arrival order.
StreamingReassembly ==
  [][\A s \in WebSessions :
       (/\ OnMessage(EndMsg("joke_audio_end", s))
        /\ announced.sessionId = s
        /\ announced.bytes # <<>>)
       => /\ currentAudioRef' # 0
          /\ audios'[currentAudioRef'].kind = "stream"
          /\ combinedArray' = announced.bytes]_vars

\* C31: a call of simulateIncomingAudioChunks leaves exactly one timer
\* live, the one in this.simulationInterval, starting at index 0, and a
\* call of stopSimulation leaves none.
SingleTimerRestart ==
  [][/\ simIds' # simIds =>
          /\ DOMAIN simTimers' = {simRef'}
          /\ simTimers'[simRef'] = 0
     /\ (simCalls' # simCalls /\ simIds' = simIds) => DOMAIN simTimers' = {}]_vars

\* C32: the simulator emits no chunk with index 10 or more.
EmittedBelowTen ==
  \A k \in 1..Len(simEmitted) : simEmitted[k] < simChunkCount

\* C33: while the playback hook is mounted, the buffered count it reports
\* is the length of the playback queue.
BufferedCountMatchesQueue == bufferedChunks = Len(audioQueueRef)

\* a stop whose stopAsync threw has returned while chunks are queued
BufferedCountMatchesQueueWitness ==
  /\ stopCompleted
  /\ error
  /\ Len(audioQueueRef) > 0
  /\ bufferedChunks > 0
  /\ Len(played) > 0

\* C34: once the cleanup of the playback hook has run, its handler is not
\* in the service's list, the queue is empty, and no step appends a chunk
\* to the queue or starts a drain loop.
UnmountUnregisters ==
  /\ [](unmounted => (~HookRegistered /\ audioQueueRef = <<>>))
  /\ [][unmounted => (arrivals' = arrivals /\ ~DrainStarts)]_vars

\* after the unmount the simulator has emitted a chunk that nobody heard
UnmountUnregistersWitness ==
  /\ unmounted
  /\ calls = 1
  /\ arrivals > 0
  /\ chunkIndex > arrivals
  /\ loops = {}

\* C35: a startRecording that completes while a session is active starts
\* no second duration timer and leaves the session as it is.
StartWhileActiveNoOp ==
  [][(StartModeDone(TRUE) /\ isRecording) =>
       /\ liveTimers' = liveTimers
       /\ startTimeRef' = startTimeRef]_vars

\* C37: at most one Audio element is playing, and currentAudioRef is null
\* or designates a playing element.
AudioExclusive ==
  Cardinality({a \in 1..Len(audios) : audios[a].st = "playing"}) <= 1

\* C38: isPlayingFacialJoke is true only while the current audio is a
\* facial joke's.
FacialFlagFollowsAudio ==
  isPlayingFacialJoke =>
    /\ currentAudioRef # 0
    /\ audios[currentAudioRef].kind \in {"facial", "facial_stream"}

\* C36: a chunk message or an end message whose session_id is not that of
\* the collection in progress leaves the collection as it is, and plays
\* nothing.
SessionIsolation ==
  [][\A m \in WebMessages :
       (/\ m.type \in {"joke_audio_chunk", "facial_joke_audio_chunk",
                       "joke_audio_end", "facial_joke_audio_end"}
        /\ streamingAudioRef # NoRef
        /\ streamingAudioRef.sessionId # m.session_id
        /\ OnMessage(m))
       => /\ streamingAudioRef' = streamingAudioRef
          /\ UNCHANGED <<audios, currentAudioRef, combinedArray>>]_vars

\* a collection in progress for s1 holds a chunk and the page can receive
\* a further message, of either session
SessionIsolationWitness ==
  /\ streamingAudioRef # NoRef
  /\ streamingAudioRef.sessionId = "s1"
  /\ Len(streamingAudioRef.chunks) = 1
  /\ webMsgs = 3
  /\ wsOpen
  /\ transcription = ""
  /\ jokeResponse = ""
  /\ ~currentExpression
  /\ audios = <<>>

(***************************************************************************)
(* C39  Web send protocol.  On the page's WebSocket the first message sent *)
(* is session_start, every message carries the session id of the first,   *)
(* and ws.send is never called while the socket is not open, the call of   *)
(* the frame-encoding callback included.                                   *)
(* Violated: captureAndSendFrame tests ws.readyState when the interval     *)
(* fires, reader.onload sends later without testing it again.              *)
(***************************************************************************)
SendProtocol ==
  /\ wsSent # <<>> => wsSent[1].type = "session_start"
  /\ \A i \in 1..Len(wsSent) :
       /\ i > 1 => wsSent[i].type \in {"audio_chunk", "video_frame"}
       /\ wsSent[i].session_id = wsSent[1].session_id
       /\ wsSent[i].readyState = "OPEN"

(***************************************************************************)
(* C40  Web page teardown.  Once the page is unmounted and startEverything *)
(* is past its await, the WebSocket is closed or closing, the tracks are   *)
(* stopped, the audio context is closed and the frame interval is cleared, *)
(* and no message was sent after the unmount.  (The cleanup is the only    *)
(* step that releases anything, so what is live in such a state stays      *)
(* live for ever.)                                                         *)
(* Violated: a cleanup that runs before getUserMedia resolves finds every  *)
(* ref null; startEverything then goes on and makes them all.              *)
(***************************************************************************)
TeardownReleases ==
  (pageUnmounted /\ startup # "awaiting") =>
     /\ readyState \in {"none", "CLOSING", "CLOSED"}
     /\ ~tracksLive
     /\ contextState # "running"
     /\ ~frameTimer
     /\ \A i \in 1..Len(wsSent) : ~wsSent[i].unmounted

====
